---- MODULE Spec2Model ----
(***************************************************************************)
(* uvalib/ocr-lambda: the OCR web service dispatcher (cmd/ocr-ws) and the  *)
(* OCR worker pipeline (cmd/ocr-lambda).                                   *)
(*                                                                         *)
(* Strings the dispatcher parses or concatenates (pid, unit, pages, token, *)
(* email, work-directory keys) are sequences of one-character strings, so  *)
(* that strconv.Atoi and fmt.Sprintf are computed rather than assumed.     *)
(***************************************************************************)
EXTENDS Integers, Sequences, FiniteSets, TLC

(***************************************************************************)
(* Bounds of the model                                                     *)
(***************************************************************************)
MaxRequests == 3        \* requests the web service accepts in one behaviour
MaxInvocations == 2     \* invocations one execution environment of the lambda serves
MaxLangs == 2           \* codes in a requested language string

(***************************************************************************)
(* cmd/ocr-ws: strings                                                     *)
(***************************************************************************)
Empty == <<>>

Digits == {"0", "1", "2", "3", "4", "5", "6", "7", "8", "9"}

DigitVal(c) ==
    CASE c = "0" -> 0 [] c = "1" -> 1 [] c = "2" -> 2 [] c = "3" -> 3
      [] c = "4" -> 4 [] c = "5" -> 5 [] c = "6" -> 6 [] c = "7" -> 7
      [] c = "8" -> 8 [] c = "9" -> 9

DigitChar(d) ==
    CASE d = 0 -> "0" [] d = 1 -> "1" [] d = 2 -> "2" [] d = 3 -> "3"
      [] d = 4 -> "4" [] d = 5 -> "5" [] d = 6 -> "6" [] d = 7 -> "7"
      [] d = 8 -> "8" [] d = 9 -> "9"

RECURSIVE DigitsValue(_, _)
DigitsValue(s, acc) ==
    IF s = <<>> THEN acc ELSE DigitsValue(Tail(s), acc * 10 + DigitVal(Head(s)))

\* strconv.Atoi on a short string (its fast path): an optional sign, then one
\* or more decimal digits; anything else is an error and the value is 0.
Atoi(s) ==
    IF s = <<>> THEN [val |-> 0, ok |-> FALSE]
    ELSE LET signed == Head(s) \in {"+", "-"}
             body   == IF signed THEN Tail(s) ELSE s
         IN  IF body = <<>> \/ \E i \in 1..Len(body) : body[i] \notin Digits
             THEN [val |-> 0, ok |-> FALSE]
             ELSE [val |-> IF Head(s) = "-" THEN 0 - DigitsValue(body, 0)
                                            ELSE DigitsValue(body, 0),
                   ok  |-> TRUE]

\* fmt.Sprintf("%d", n) for n >= 0 (a negative unitID is never formatted)
RECURSIVE Itoa(_)
Itoa(n) ==
    IF n < 10 THEN <<DigitChar(n)>> ELSE Itoa(n \div 10) \o <<DigitChar(n % 10)>>

(***************************************************************************)
(* cmd/ocr-ws: requests, the storage directory, the metadata collaborator  *)
(***************************************************************************)
Handlers == {"h1", "h2"}          \* concurrent net/http handler goroutines

\* config.storageDir.value
StorageDir == <<"s">>

\* ocrRequest: the fields generateHandler saves from the request
OcrRequest(pid, unit, pages, token, email) ==
    [pid |-> pid, unit |-> unit, pages |-> pages, token |-> token, email |-> email]

Pids   == { <<"a">>, <<"b">> }
Emails == { Empty, <<"e">> }
PageParams == { Empty, <<"1", ",", "2">> }

\* requests served by the running dispatcher: a whole document, one of its
\* units, a page list without a token, and a page list
\* whose token is spelled like the first document's pid
Requests ==
    { OcrRequest(<<"a">>, Empty, Empty, Empty, Empty),
      OcrRequest(<<"a">>, <<"1">>, Empty, Empty, <<"e">>),
      OcrRequest(<<"a">>, Empty, <<"1", ",", "2">>, Empty, Empty),
      OcrRequest(<<"b">>, Empty, <<"1", ",", "2">>, <<"a">>, Empty) }

\* requests whose identity is resolved: every shape of the unit parameter
\* (absent, zero, positive, leading zero, signed, non-numeric, trailing junk)
\* and tokens that do and do not look like another request's key
UnitParams ==
    { Empty, <<"0">>, <<"1">>, <<"2">>, <<"0", "1">>, <<"1", "2">>, <<"+", "1">>,
      <<"-", "1">>, <<"x">>, <<"1", "x">>, <<"+">> }
TokenParams == { Empty, <<"t">>, <<"a">>, <<"a", "/", "1">> }
KeyRequests ==
    { OcrRequest(p, u, g, t, e) :
        p \in Pids, u \in UnitParams, g \in PageParams, t \in TokenParams, e \in Emails }

NoRequest == OcrRequest(Empty, Empty, Empty, Empty, Empty)

\* pageInfo as the metadata collaborator returns it
PageInfo(pid, filename) == [PID |-> pid, Filename |-> filename]
PageLists ==
    { <<>>,
      << PageInfo("", "f0") >>,
      << PageInfo("p1", "f1"), PageInfo("", "f0"), PageInfo("p2", "f2") >> }

\* ocrInfo
OcrInfo(unitID, workDir, destDir, pages) ==
    [unitID |-> unitID, workDir |-> workDir, destDir |-> destDir, pages |-> pages]
NoOcr == OcrInfo(0, Empty, Empty, <<>>)

\* the response writer: status 0 means WriteHeader was not called yet
NoResponse == [status |-> 0, body |-> ""]

StatusOK         == 200
StatusBadRequest == 400
StatusNotFound   == 404

VARIABLES
    storage,      \* the directories that exist under config.storageDir
    hpc,          \* where each handler goroutine stands in generateHandler
    req,          \* ocr.req of each handler
    ocr,          \* the rest of each handler's ocrInfo
    resp,         \* what each handler wrote to its http.ResponseWriter
    calls,        \* the external calls each handler made, in order
    outcome,      \* the branch on which each handler left generateHandler
    tasks,        \* the goroutines started by "go generateOcr(ocr)"
    nreq,         \* requests accepted so far
    outstanding,  \* history: keys launched by a handler that has returned
    prior,        \* history: outstanding, as it was when the handler started
    deleted,      \* history: keys whose delete succeeded
    delSeen       \* history: deleted, as it was when the handler started

(***************************************************************************)
(* cmd/ocr-lambda: requests, files, command history                        *)
(*                                                                         *)
(* Paths (S3 keys, pids used as path elements, result prefixes) are        *)
(* sequences of path elements; a language string is the sequence of codes  *)
(* that strings.Split(langStr, "+") yields, so "" is <<"">>.               *)
(***************************************************************************)
Pipes == {"p1", "p2"}             \* execution environments of the lambda

\* variant: the invocations are served side by side in one process
HostShared(p) == "p1"

\* lambda.Start serves one invocation at a time in each execution
\* environment, and every environment has its own process and its own /tmp
HostOf(p) == p

\* lambdaRequestType
LambdaRequest(pid, parentPid, lang, scale, bucket, key, records) ==
    [Pid |-> pid, ParentPid |-> parentPid, Lang |-> lang, Scale |-> scale,
     Bucket |-> bucket, Key |-> key, Records |-> records]

S3Record(bucket, key) == [Bucket |-> bucket, Key |-> key]

NoLang == <<"">>

WorkflowEng  == LambdaRequest(<<"m1">>, <<"m1">>, NoLang, "50", "bkt", <<"in", "m1.tif">>, <<>>)
WorkflowAze  == LambdaRequest(<<"m2">>, <<"par">>, <<"aze">>, "50", "bkt", <<"in", "m2.tif">>, <<>>)
Standalone   == LambdaRequest(<<>>, <<>>, NoLang, "", "", <<>>,
                              << S3Record("bkt", <<"standalone", "requests", "x", "img.tif">>) >>)
Unhandled    == LambdaRequest(<<>>, <<>>, NoLang, "", "", <<>>, <<>>)

LambdaRequests == { WorkflowEng, WorkflowAze, Standalone, Unhandled }

\* ocrConfig
OcrConfig(prefix, languages, scale, bucket, key, formats) ==
    [remoteResultsPrefix |-> prefix, languages |-> languages, scale |-> scale,
     bucket |-> bucket, key |-> key, additionalFormats |-> formats]
NoConfig == OcrConfig(<<>>, NoLang, "", "", <<>>, <<>>)

\* commandInfo; Output and Duration are kept as the command's exit status
CommandInfo(command, arguments, ok) ==
    [Command |-> command, Arguments |-> arguments,
     Output |-> IF ok THEN "ok" ELSE "failed"]

\* what a pipeline invocation hands back: (string, error)
Result(out, err) == [out |-> out, err |-> err, detail |-> ""]

\* the error of a failed command, which wraps the output of the command
CommandError(msg, output) == [out |-> <<>>, err |-> msg, detail |-> output]
NoResult == Result(<<>>, "")

\* local directories: the directory the process starts in, "/", and
\* localWorkDir "/tmp/ocr-lambda"
LocalDirs == {"start", "/", "wd"}
EmptyDir == <<>>

\* file names: a fixed stem and the rest of the name
ResultsFile(ext) == <<"results.", ext>>
SourceFile(base) == <<"source-", base>>
LocalConvertedImage == <<"source-", "converted.tif">>

\* the work directory's results.hocr
LocalResultsTxtHocr == ResultsFile("hocr")

\* line 362: localResultsTxt, results.txt
LocalResultsTxt == ResultsFile("txt")

\* workflowResponseType and json.Marshal, lines 435-439: the response is a
\* JSON object whose text member carries the string it is given
WorkflowResponse(text) == [text |-> text]

\* the language and script data files known to the model
LangCodes == {"osd", "eng", "aze", "aze_cyrl"}

\* what one HTTP fetch of a data file does: a 200 answer copied in full, an
\* answer other than 200 (or no answer), a 200 answer whose copy breaks off
FetchResults == {"ok", "no", "partial"}

VARIABLES
    lpc,          \* where each pipeline invocation stands
    lreq,         \* the request of the invocation
    cfg,          \* its ocrConfig
    ret,          \* the (string, error) it returns
    trace,        \* history: the steps it has executed, in order
    fetched,      \* history: the data files it has tried to fetch, in order
    langsAll,     \* checkLanguages: the codes to ensure
    li,           \* checkLanguages: index of the next code
    pending,      \* uploadResults: the matches not yet uploaded
    ninv,         \* invocations served so far by each environment
    cmds,         \* the package variable cmds of each process
    cwd,          \* the current directory of each process
    fs,           \* the local files of each environment, by directory
    wdExists,     \* whether localWorkDir exists
    tess,         \* the data files under TESSDATA_PREFIX
    s3,           \* the remote store: (bucket, prefix, file) -> content
    uploaded,     \* history: the objects each invocation has put
    overlapped,   \* history: two invocations were under way at the same time
    resolved,     \* history: the strings checkLanguages has succeeded for, with their codes
    ran           \* history: the commands each invocation has run, with their success

lamVars == << lpc, lreq, cfg, ret, trace, fetched, langsAll, li, pending, ninv,
              cmds, cwd, fs, wdExists, tess, s3, uploaded, overlapped, resolved,
              ran >>

wsVars == << storage, hpc, req, ocr, resp, calls, outcome, tasks, nreq,
             outstanding, prior, deleted, delSeen >>

vars == << wsVars, lamVars >>

\* fmt.Sprintf("%s/%s", a, b)
PathJoin2(a, b) == a \o <<"/">> \o b

\* d is p or lies below p
Under(d, p) ==
    \/ d = p
    \/ Len(d) > Len(p) + 1 /\ SubSeq(d, 1, Len(p) + 1) = p \o <<"/">>

\* the directories a path lies in, up to the storage directory
ParentsOf(d) ==
    { SubSeq(d, 1, i - 1) : i \in { j \in 2..Len(d) : d[j] = "/" } } \ {StorageDir}

\* a directory exists only inside existing directories
TreeClosed(dirs) == \A d \in dirs : ParentsOf(d) \subseteq dirs

\* directories left in the storage directory by earlier runs of the service
InitialDirs ==
    { PathJoin2(StorageDir, <<"a">>),
      PathJoin2(StorageDir, <<"a", "/", "1">>) }

(***************************************************************************)
(* generateHandler                                                         *)
(***************************************************************************)
\* ocr.unitID, _ = strconv.Atoi(ocr.req.unit)
UnitID(r) == Atoi(r.unit).val

\* variant: a unit of 0 is taken for a unit as well
UnitWorkDirFromZero(r) ==
    IF Atoi(r.unit).ok /\ UnitID(r) >= 0 THEN PathJoin2(r.pid, Itoa(UnitID(r))) ELSE r.pid

\* the work directory before the page list is looked at
UnitWorkDir(r) ==
    IF UnitID(r) > 0 THEN PathJoin2(r.pid, Itoa(UnitID(r))) ELSE r.pid

\* variant: the token check is left out
MissingTokenUnchecked(r) == FALSE

\* a page list without a token
MissingToken(r) == Len(r.pages) > 0 /\ Len(r.token) = 0

\* variant: the notification address becomes part of the key
WorkDirPerEmail(r) ==
    (IF Len(r.pages) > 0 THEN r.token ELSE UnitWorkDir(r)) \o r.email

\* ocr.workDir once the request is accepted
WorkDir(r) == IF Len(r.pages) > 0 THEN r.token ELSE UnitWorkDir(r)

\* ocr.destDir
DestDir(workDir) == PathJoin2(StorageDir, workDir)

\* variant: the probe also succeeds for a directory that was removed
DestExistsAlways(dirs, destDir) == TRUE

\* variant: the probe never finds the destination
DestExistsNever(dirs, destDir) == FALSE

\* os.Stat(ocr.destDir) returns no error
DestExists(dirs, destDir) == destDir \in dirs

\* variant: pages without a pid are kept
UsablePagesAll(tsPages) == tsPages

\* variant: a kept page is put in front of the pages kept before it
RECURSIVE UsablePagesReversed(_)
UsablePagesReversed(tsPages) ==
    IF tsPages = <<>> THEN <<>>
    ELSE IF Head(tsPages).PID = "" THEN UsablePagesReversed(Tail(tsPages))
    ELSE UsablePagesReversed(Tail(tsPages)) \o <<Head(tsPages)>>

\* the pages generateHandler keeps
RECURSIVE UsablePages(_)
UsablePages(tsPages) ==
    IF tsPages = <<>> THEN <<>>
    ELSE IF Head(tsPages).PID = "" THEN UsablePages(Tail(tsPages))
    ELSE <<Head(tsPages)>> \o UsablePages(Tail(tsPages))

\* lines 40-71: save the request, derive the work directory, reject a page
\* list that comes without a token
GenStart(h, r) ==
    /\ hpc[h] \in {"idle", "done"}
    /\ nreq < MaxRequests
    /\ nreq' = nreq + 1
    /\ req' = [req EXCEPT ![h] = r]
    /\ calls' = [calls EXCEPT ![h] = <<>>]
    /\ prior' = [prior EXCEPT ![h] = outstanding]
    /\ delSeen' = [delSeen EXCEPT ![h] = deleted]
    /\ IF MissingToken(r)
       THEN /\ ocr' = [ocr EXCEPT ![h] = OcrInfo(UnitID(r), UnitWorkDir(r), Empty, <<>>)]
            /\ resp' = [resp EXCEPT ![h] = [status |-> StatusBadRequest, body |-> "Missing token"]]
            /\ outcome' = [outcome EXCEPT ![h] = "badrequest"]
            /\ hpc' = [hpc EXCEPT ![h] = "ret"]
       ELSE /\ ocr' = [ocr EXCEPT ![h] = OcrInfo(UnitID(r), WorkDir(r), Empty, <<>>)]
            /\ resp' = [resp EXCEPT ![h] = NoResponse]
            /\ outcome' = [outcome EXCEPT ![h] = ""]
            /\ hpc' = [hpc EXCEPT ![h] = "stat"]
    /\ UNCHANGED << storage, tasks, outstanding, deleted, lamVars >>

\* lines 73-82: probe the destination; if it exists hand over to
\* monitorProgressAndNotifyResults and return
GenStat(h) ==
    /\ hpc[h] = "stat"
    /\ LET dest == DestDir(ocr[h].workDir) IN
       /\ ocr' = [ocr EXCEPT ![h].destDir = dest]
       /\ IF DestExists(storage, dest)
          THEN /\ calls' = [calls EXCEPT ![h] = @ \o <<"os.Stat", "monitorProgressAndNotifyResults">>]
               /\ outcome' = [outcome EXCEPT ![h] = "existing"]
               /\ hpc' = [hpc EXCEPT ![h] = "ret"]
          ELSE /\ calls' = [calls EXCEPT ![h] = @ \o <<"os.Stat">>]
               /\ outcome' = outcome
               /\ hpc' = [hpc EXCEPT ![h] = "pages"]
    /\ UNCHANGED << storage, req, resp, tasks, nreq, outstanding, prior, deleted, delSeen, lamVars >>

\* variant: the error of tsGetPages is not looked at
GenPagesErrIgnored(h, tsErr, tsPages) ==
    /\ hpc[h] = "pages"
    /\ calls' = [calls EXCEPT ![h] = @ \o <<"tsGetPages">>]
    /\ ocr' = [ocr EXCEPT ![h].pages = UsablePages(tsPages)]
    /\ IF Len(UsablePages(tsPages)) = 0
       THEN /\ resp' = [resp EXCEPT ![h] = [status |-> StatusNotFound, body |-> "No pages found for this PID"]]
            /\ outcome' = [outcome EXCEPT ![h] = "nopages"]
            /\ hpc' = [hpc EXCEPT ![h] = "ret"]
       ELSE /\ resp' = resp
            /\ outcome' = outcome
            /\ hpc' = [hpc EXCEPT ![h] = "launch"]
    /\ UNCHANGED << storage, req, tasks, nreq, outstanding, prior, deleted, delSeen, lamVars >>

\* lines 84-107: ask the metadata collaborator for the pages, drop pages
\* without a pid, answer 404 on an error or when no page is left
GenPages(h, tsErr, tsPages) ==
    /\ hpc[h] = "pages"
    /\ calls' = [calls EXCEPT ![h] = @ \o <<"tsGetPages">>]
    /\ IF tsErr
       THEN /\ resp' = [resp EXCEPT ![h] = [status |-> StatusNotFound, body |-> "Tracksys API error"]]
            /\ outcome' = [outcome EXCEPT ![h] = "tserror"]
            /\ hpc' = [hpc EXCEPT ![h] = "ret"]
            /\ ocr' = ocr
       ELSE /\ ocr' = [ocr EXCEPT ![h].pages = UsablePages(tsPages)]
            /\ IF Len(UsablePages(tsPages)) = 0
               THEN /\ resp' = [resp EXCEPT ![h] = [status |-> StatusNotFound, body |-> "No pages found for this PID"]]
                    /\ outcome' = [outcome EXCEPT ![h] = "nopages"]
                    /\ hpc' = [hpc EXCEPT ![h] = "ret"]
               ELSE /\ resp' = resp
                    /\ outcome' = outcome
                    /\ hpc' = [hpc EXCEPT ![h] = "launch"]
    /\ UNCHANGED << storage, req, tasks, nreq, outstanding, prior, deleted, delSeen, lamVars >>

\* variant: the handler makes the destination before it starts generateOcr
GenLaunchMkdir(h) ==
    /\ hpc[h] = "launch"
    /\ calls' = [calls EXCEPT ![h] = @ \o <<"tsGetText", "go generateOcr">>]
    /\ tasks' = Append(tasks, [ocr |-> ocr[h], state |-> "started"])
    /\ outcome' = [outcome EXCEPT ![h] = "launched"]
    /\ hpc' = [hpc EXCEPT ![h] = "ret"]
    /\ storage' = storage \cup {ocr[h].destDir}
    /\ UNCHANGED << req, ocr, resp, nreq, outstanding, prior, deleted, delSeen, lamVars >>

\* lines 109-125: fetch the text hint (its result is only logged) and start
\* generateOcr in a goroutine of its own
GenLaunch(h) ==
    /\ hpc[h] = "launch"
    /\ calls' = [calls EXCEPT ![h] = @ \o <<"tsGetText", "go generateOcr">>]
    /\ tasks' = Append(tasks, [ocr |-> ocr[h], state |-> "started"])
    /\ outcome' = [outcome EXCEPT ![h] = "launched"]
    /\ hpc' = [hpc EXCEPT ![h] = "ret"]
    /\ UNCHANGED << storage, req, ocr, resp, nreq, outstanding, prior, deleted, delSeen, lamVars >>

\* variant: generateOcr is called in the handler's own goroutine, so the
\* handler returns only once it has returned
GenReturnAfterTask(h) ==
    /\ hpc[h] = "ret"
    /\ \A i \in 1..Len(tasks) :
          tasks[i].ocr.workDir = ocr[h].workDir => tasks[i].state = "returned"
    /\ resp' = [resp EXCEPT ![h].status = IF @ = 0 THEN StatusOK ELSE @]
    /\ outstanding' = IF outcome[h] = "launched"
                      THEN outstanding \cup {ocr[h].workDir} ELSE outstanding
    /\ hpc' = [hpc EXCEPT ![h] = "done"]
    /\ UNCHANGED << storage, req, ocr, calls, outcome, tasks, nreq, prior, deleted, delSeen, lamVars >>

\* generateHandler returns; net/http sends 200 when no header was written
GenReturn(h) ==
    /\ hpc[h] = "ret"
    /\ resp' = [resp EXCEPT ![h].status = IF @ = 0 THEN StatusOK ELSE @]
    /\ outstanding' = IF outcome[h] = "launched"
                      THEN outstanding \cup {ocr[h].workDir} ELSE outstanding
    /\ hpc' = [hpc EXCEPT ![h] = "done"]
    /\ UNCHANGED << storage, req, ocr, calls, outcome, tasks, nreq, prior, deleted, delSeen, lamVars >>

\* lines 127-130: generateOcr only logs; the call of awsGenerateOcr is
\* commented out, so the task writes nothing to the storage directory
GenerateOcr(i) ==
    /\ i \in 1..Len(tasks)
    /\ tasks[i].state = "started"
    /\ tasks' = [tasks EXCEPT ![i].state = "returned"]
    /\ UNCHANGED << storage, hpc, req, ocr, resp, calls, outcome, nreq,
                    outstanding, prior, deleted, delSeen, lamVars >>

(***************************************************************************)
(* statusHandler, deleteHandler: the status/result surface                 *)
(***************************************************************************)
\* status(key): unknown when the job directory does not exist
JobStatus(dirs, workDir) ==
    IF DestExists(dirs, DestDir(workDir)) THEN "present" ELSE "unknown"

\* the directories left after removing a job directory and all below it
RemoveAll(dirs, d) == { x \in dirs : ~Under(x, d) }

\* delete(key): removes the whole job directory; not found when there is none
DeleteHandler(workDir) ==
    /\ DestExists(storage, DestDir(workDir))
    /\ storage' = RemoveAll(storage, DestDir(workDir))
    /\ LET gone == { k \in outstanding \cup deleted \cup {workDir} :
                       Under(DestDir(k), DestDir(workDir)) } IN
       /\ deleted' = deleted \cup {workDir}
       /\ outstanding' = outstanding \ gone
       /\ prior' = [h \in Handlers |-> prior[h] \ gone]
    /\ UNCHANGED << hpc, req, ocr, resp, calls, outcome, tasks, nreq, delSeen, lamVars >>

\* the keys a caller can name
WorkDirs == { WorkDir(r) : r \in { q \in Requests : ~MissingToken(q) } }

(***************************************************************************)
(* cmd/ocr-lambda: helpers                                                 *)
(***************************************************************************)
\* f with key k set to v (a local directory, or the remote store)
Put(f, k, v) == [x \in (DOMAIN f) \cup {k} |-> IF x = k THEN v ELSE f[x]]

\* path.Join of path elements: empty elements are dropped
RECURSIVE PathJoin(_)
PathJoin(elems) ==
    IF elems = <<>> THEN <<>>
    ELSE IF Head(elems) = "" THEN PathJoin(Tail(elems))
    ELSE <<Head(elems)>> \o PathJoin(Tail(elems))

\* path.Base
Base(key) == IF key = <<>> THEN "." ELSE key[Len(key)]

\* strings.Replace(key, "standalone/requests/", "", -1)
RECURSIVE StripRequests(_)
StripRequests(key) ==
    IF Len(key) >= 3 /\ key[1] = "standalone" /\ key[2] = "requests"
    THEN StripRequests(Tail(Tail(key)))
    ELSE IF key = <<>> THEN <<>>
    ELSE <<Head(key)>> \o StripRequests(Tail(key))

\* file contents
Image(bucket, key)          == [kind |-> "image", bucket |-> bucket, key |-> key]
PartialFile                 == [kind |-> "partial"]
Converted(source, scale)    == [kind |-> "tif", of |-> source, scale |-> scale]
Recognized(fmt, tif, langs) == [kind |-> fmt, of |-> tif, lang |-> langs]
CommandLog(history)         == [kind |-> "log", commands |-> history]

\* variant: the history of the earlier invocation is kept
NewHistoryKept(old) == old

\* line 356, cmds = &commandHistory{}: every invocation starts an empty history
NewHistory(old) == <<>>

\* variant: a command that fails leaves no record
RunCommandDropFailed(history, command, arguments, ok) ==
    IF ok THEN Append(history, CommandInfo(command, arguments, ok)) ELSE history

\* variant: the record takes the place of the history
RunCommandKeepLast(history, command, arguments, ok) ==
    << CommandInfo(command, arguments, ok) >>

\* runCommand: the record is appended whether or not the command failed
RunCommand(history, command, arguments, ok) ==
    Append(history, CommandInfo(command, arguments, ok))

\* variant: the body of the response is written under another name
DownloadFileMisplaced(file, res) ==
    CASE res = "ok"      -> [file |-> file, err |-> FALSE]
      [] res = "no"      -> [file |-> file, err |-> TRUE]
      [] res = "partial" -> [file |-> file, err |-> TRUE]

\* downloadFile: the state of the local data file after one fetch, and
\* whether an error is returned
DownloadFile(file, res) ==
    CASE res = "ok"      -> [file |-> "ok", err |-> FALSE]
      [] res = "no"      -> [file |-> file, err |-> TRUE]
      [] res = "partial" -> [file |-> "partial", err |-> TRUE]

\* variant: no language depends on another
LangDepNone(l) == ""

\* langsMap
LangDep(l) ==
    CASE l = "aze"      -> "aze_cyrl"
      [] l = "aze_cyrl" -> "aze"
      [] l = "uzb"      -> "uzb_cyrl"
      [] l = "uzb_cyrl" -> "uzb"
      [] OTHER          -> ""

RECURSIVE ExpandLangs(_)
ExpandLangs(langs) ==
    IF langs = <<>> THEN <<>>
    ELSE LET l == Head(langs) IN
         IF l = "" THEN ExpandLangs(Tail(langs))
         ELSE <<l>> \o (IF LangDep(l) # "" THEN <<LangDep(l)>> ELSE <<>>)
                    \o ExpandLangs(Tail(langs))

\* checkLanguages: langsAll
LangsAll(langStr) == <<"osd">> \o ExpandLangs(langStr)

\* variant: an empty language string is passed on as it is
LangStrNoDefault(c) == c.languages

\* the default language
LangStr(c) == IF c.languages = NoLang THEN <<"eng">> ELSE c.languages

\* variant: plain text is asked for after the additional formats
OutputFormatsTxtLast(c) == c.additionalFormats \o <<"txt">>

\* outputFormats
OutputFormats(c) == <<"txt">> \o c.additionalFormats

\* handleWorkflowOcrRequest: the ocrConfig of a workflow request
WorkflowConfig(r) ==
    LET remoteSubDir == IF r.Pid # r.ParentPid THEN r.ParentPid \o r.Pid ELSE r.Pid
    IN  OcrConfig(PathJoin(<<"results">> \o remoteSubDir \o <<r.Scale>>),
                  r.Lang, r.Scale, r.Bucket, r.Key, <<"hocr">>)

\* handleStandaloneOcrRequest: the ocrConfig of an S3 event
StandaloneConfig(r) ==
    LET key == r.Records[1].Key
    IN  OcrConfig(PathJoin(<<"standalone", "results">> \o StripRequests(key)),
                  NoLang, "100", r.Records[1].Bucket, key, <<"hocr", "pdf">>)

\* variant: the S3 records are looked at before the pid
RouteRecordsFirst(r) ==
    IF Len(r.Records) > 0 THEN "standalone"
    ELSE IF r.Pid # <<>> THEN "workflow"
    ELSE "unhandled"

\* handleOcrRequest: which handler a request goes to
Route(r) ==
    IF r.Pid # <<>> THEN "workflow"
    ELSE IF Len(r.Records) > 0 THEN "standalone"
    ELSE "unhandled"

\* variant: every frame of the source is converted
ConvertArgsAllFrames(source, converted, scale) ==
    << "convert", "-units", "PixelsPerInch", "-type", "Grayscale", "+compress",
       "+repage", <<source>>, "-filter", "Lanczos", "-resize",
       <<scale, "%">>, converted >>

\* convertImage: the arguments of magick
ConvertArgs(source, converted, scale) ==
    << "convert", "-units", "PixelsPerInch", "-type", "Grayscale", "+compress",
       "+repage", <<source, "[0]">>, "-filter", "Lanczos", "-resize",
       <<scale, "%">>, converted >>

\* ocrImage: the arguments of tesseract
OcrArgs(converted, resultsBase, langStr, formats) ==
    << converted, resultsBase, "--psm", "1", "-l", langStr >> \o formats

\* variant: the pattern leaves the log out
GlobNoLog(dir) ==
    LET Present(ext) == ResultsFile(ext) \in DOMAIN dir
        exts == SelectSeq(<<"hocr", "pdf", "txt">>, Present)
    IN  [i \in 1..Len(exts) |-> ResultsFile(exts[i])]

\* filepath.Glob("results.*"): the matches, in lexical order
ResultExts == <<"hocr", "log", "pdf", "txt">>
Glob(dir) ==
    LET Present(ext) == ResultsFile(ext) \in DOMAIN dir
        exts == SelectSeq(ResultExts, Present)
    IN  [i \in 1..Len(exts) |-> ResultsFile(exts[i])]

\* variant: a language that cannot be fetched does not end the invocation
NextStageLangNotFatal(stage, ok) ==
    CASE stage = "MkdirAll"            -> IF ok THEN "Chdir" ELSE "returned"
      [] stage = "Chdir"               -> IF ok THEN "downloadImage" ELSE "saveCommandHistory"
      [] stage = "downloadImage"       -> IF ok THEN "getSoftwareVersions" ELSE "saveCommandHistory"
      [] stage = "getSoftwareVersions" -> "checkLanguages"
      [] stage = "checkLanguages"      -> "convertImage"
      [] stage = "convertImage"        -> IF ok THEN "ocrImage" ELSE "saveCommandHistory"
      [] stage = "ocrImage"            -> IF ok THEN "ReadFile" ELSE "saveCommandHistory"
      [] stage = "ReadFile"            -> "saveCommandHistory"
      [] stage = "saveCommandHistory"  -> "uploadResults"
      [] stage = "uploadResults"       -> "RemoveAll"
      [] stage = "RemoveAll"           -> "returned"

\* variant: a failed conversion does not end the invocation
NextStageConvertNotFatal(stage, ok) ==
    CASE stage = "MkdirAll"            -> IF ok THEN "Chdir" ELSE "returned"
      [] stage = "Chdir"               -> IF ok THEN "downloadImage" ELSE "saveCommandHistory"
      [] stage = "downloadImage"       -> IF ok THEN "getSoftwareVersions" ELSE "saveCommandHistory"
      [] stage = "getSoftwareVersions" -> "checkLanguages"
      [] stage = "checkLanguages"      -> IF ok THEN "convertImage" ELSE "saveCommandHistory"
      [] stage = "convertImage"        -> "ocrImage"
      [] stage = "ocrImage"            -> IF ok THEN "ReadFile" ELSE "saveCommandHistory"
      [] stage = "ReadFile"            -> "saveCommandHistory"
      [] stage = "saveCommandHistory"  -> "uploadResults"
      [] stage = "uploadResults"       -> "RemoveAll"
      [] stage = "RemoveAll"           -> "returned"

\* variant: the image is converted before the languages are looked at
NextStageConvertFirst(stage, ok) ==
    CASE stage = "MkdirAll"            -> IF ok THEN "Chdir" ELSE "returned"
      [] stage = "Chdir"               -> IF ok THEN "downloadImage" ELSE "saveCommandHistory"
      [] stage = "downloadImage"       -> IF ok THEN "getSoftwareVersions" ELSE "saveCommandHistory"
      [] stage = "getSoftwareVersions" -> "convertImage"
      [] stage = "convertImage"        -> IF ok THEN "checkLanguages" ELSE "saveCommandHistory"
      [] stage = "checkLanguages"      -> IF ok THEN "ocrImage" ELSE "saveCommandHistory"
      [] stage = "ocrImage"            -> IF ok THEN "ReadFile" ELSE "saveCommandHistory"
      [] stage = "ReadFile"            -> "saveCommandHistory"
      [] stage = "saveCommandHistory"  -> "uploadResults"
      [] stage = "uploadResults"       -> "RemoveAll"
      [] stage = "RemoveAll"           -> "returned"

\* variant: the cleanup is deferred only once the work directory is entered
NextStageDeferLate(stage, ok) ==
    CASE stage = "MkdirAll"            -> IF ok THEN "Chdir" ELSE "returned"
      [] stage = "Chdir"               -> IF ok THEN "downloadImage" ELSE "returned"
      [] stage = "downloadImage"       -> IF ok THEN "getSoftwareVersions" ELSE "saveCommandHistory"
      [] stage = "getSoftwareVersions" -> "checkLanguages"
      [] stage = "checkLanguages"      -> IF ok THEN "convertImage" ELSE "saveCommandHistory"
      [] stage = "convertImage"        -> IF ok THEN "ocrImage" ELSE "saveCommandHistory"
      [] stage = "ocrImage"            -> IF ok THEN "ReadFile" ELSE "saveCommandHistory"
      [] stage = "ReadFile"            -> "saveCommandHistory"
      [] stage = "saveCommandHistory"  -> "uploadResults"
      [] stage = "uploadResults"       -> "RemoveAll"
      [] stage = "RemoveAll"           -> "returned"

\* variant: a version command that fails ends the pipeline
NextStageVersionsFatal(stage, ok) ==
    CASE stage = "MkdirAll"            -> IF ok THEN "Chdir" ELSE "returned"
      [] stage = "Chdir"               -> IF ok THEN "downloadImage" ELSE "saveCommandHistory"
      [] stage = "downloadImage"       -> IF ok THEN "getSoftwareVersions" ELSE "saveCommandHistory"
      [] stage = "getSoftwareVersions" -> IF ok THEN "checkLanguages" ELSE "saveCommandHistory"
      [] stage = "checkLanguages"      -> IF ok THEN "convertImage" ELSE "saveCommandHistory"
      [] stage = "convertImage"        -> IF ok THEN "ocrImage" ELSE "saveCommandHistory"
      [] stage = "ocrImage"            -> IF ok THEN "ReadFile" ELSE "saveCommandHistory"
      [] stage = "ReadFile"            -> "saveCommandHistory"
      [] stage = "saveCommandHistory"  -> "uploadResults"
      [] stage = "uploadResults"       -> "RemoveAll"
      [] stage = "RemoveAll"           -> "returned"

\* variant: recognition is tried again when it fails
NextStageRetry(stage, ok) ==
    CASE stage = "MkdirAll"            -> IF ok THEN "Chdir" ELSE "returned"
      [] stage = "Chdir"               -> IF ok THEN "downloadImage" ELSE "saveCommandHistory"
      [] stage = "downloadImage"       -> IF ok THEN "getSoftwareVersions" ELSE "saveCommandHistory"
      [] stage = "getSoftwareVersions" -> "checkLanguages"
      [] stage = "checkLanguages"      -> IF ok THEN "convertImage" ELSE "saveCommandHistory"
      [] stage = "convertImage"        -> IF ok THEN "ocrImage" ELSE "saveCommandHistory"
      [] stage = "ocrImage"            -> IF ok THEN "ReadFile" ELSE "ocrImage"
      [] stage = "ReadFile"            -> "saveCommandHistory"
      [] stage = "saveCommandHistory"  -> "uploadResults"
      [] stage = "uploadResults"       -> "RemoveAll"
      [] stage = "RemoveAll"           -> "returned"

\* handleGenericOcrRequest: the step that follows a step, given whether it
\* succeeded; the deferred cleanup starts at saveCommandHistory
NextStage(stage, ok) ==
    CASE stage = "MkdirAll"            -> IF ok THEN "Chdir" ELSE "returned"
      [] stage = "Chdir"               -> IF ok THEN "downloadImage" ELSE "saveCommandHistory"
      [] stage = "downloadImage"       -> IF ok THEN "getSoftwareVersions" ELSE "saveCommandHistory"
      [] stage = "getSoftwareVersions" -> "checkLanguages"
      [] stage = "checkLanguages"      -> IF ok THEN "convertImage" ELSE "saveCommandHistory"
      [] stage = "convertImage"        -> IF ok THEN "ocrImage" ELSE "saveCommandHistory"
      [] stage = "ocrImage"            -> IF ok THEN "ReadFile" ELSE "saveCommandHistory"
      [] stage = "ReadFile"            -> "saveCommandHistory"
      [] stage = "saveCommandHistory"  -> "uploadResults"
      [] stage = "uploadResults"       -> "RemoveAll"
      [] stage = "RemoveAll"           -> "returned"

Running(p) == lpc[p] \notin {"idle", "returned"}

(***************************************************************************)
(* cmd/ocr-lambda: handleOcrRequest and the steps of                       *)
(* handleGenericOcrRequest                                                 *)
(***************************************************************************)
\* handleOcrRequest up to line 373 of handleGenericOcrRequest: route the
\* request, build its ocrConfig, start an empty command history
LambdaInvoke(p, r, limit) ==
    LET h == HostOf(p) IN
    /\ ~Running(p)
    /\ ninv[p] < limit
    /\ ninv' = [ninv EXCEPT ![p] = @ + 1]
    /\ lreq' = [lreq EXCEPT ![p] = r]
    /\ trace' = [trace EXCEPT ![p] = <<>>]
    /\ fetched' = [fetched EXCEPT ![p] = <<>>]
    /\ uploaded' = [uploaded EXCEPT ![p] = {}]
    /\ ran' = [ran EXCEPT ![p] = <<>>]
    /\ overlapped' = (overlapped \/ \E q \in Pipes \ {p} : Running(q))
    /\ IF Route(r) = "unhandled"
       THEN /\ ret' = [ret EXCEPT ![p] = Result(<<>>, "unhandled request type")]
            /\ lpc' = [lpc EXCEPT ![p] = "returned"]
            /\ UNCHANGED << cfg, cmds >>
       ELSE /\ cfg' = [cfg EXCEPT ![p] = IF Route(r) = "workflow"
                                         THEN WorkflowConfig(r) ELSE StandaloneConfig(r)]
            /\ cmds' = [cmds EXCEPT ![h] = NewHistory(@)]
            /\ ret' = [ret EXCEPT ![p] = NoResult]
            /\ lpc' = [lpc EXCEPT ![p] = "MkdirAll"]
    /\ UNCHANGED << langsAll, li, pending, cwd, fs, wdExists, tess, s3, resolved >>
    /\ UNCHANGED wsVars

\* lines 375-379: os.MkdirAll(localWorkDir); on failure return at once
MkdirAll(p, ok) ==
    LET h == HostOf(p) IN
    /\ lpc[p] = "MkdirAll"
    /\ trace' = [trace EXCEPT ![p] = Append(@, "MkdirAll")]
    /\ lpc' = [lpc EXCEPT ![p] = NextStage("MkdirAll", ok)]
    /\ IF ok
       THEN wdExists' = [wdExists EXCEPT ![h] = TRUE] /\ ret' = ret
       ELSE ret' = [ret EXCEPT ![p] = Result(<<>>, "failed to create work dir")]
            /\ wdExists' = wdExists
    /\ UNCHANGED << lreq, cfg, fetched, langsAll, li, pending, ninv, cmds, cwd,
                    fs, tess, s3, uploaded, overlapped, resolved, ran >>
    /\ UNCHANGED wsVars

\* lines 381-391: the cleanup is deferred, then os.Chdir(localWorkDir)
Chdir(p, ok) ==
    LET h == HostOf(p) IN
    /\ lpc[p] = "Chdir"
    /\ ok => wdExists[h]
    /\ trace' = [trace EXCEPT ![p] = Append(@, "Chdir")]
    /\ lpc' = [lpc EXCEPT ![p] = NextStage("Chdir", ok)]
    /\ IF ok
       THEN cwd' = [cwd EXCEPT ![h] = "wd"] /\ ret' = ret
       ELSE ret' = [ret EXCEPT ![p] = Result(<<>>, "failed to change to work dir")]
            /\ cwd' = cwd
    /\ UNCHANGED << lreq, cfg, fetched, langsAll, li, pending, ninv, cmds,
                    fs, wdExists, tess, s3, uploaded, overlapped, resolved, ran >>
    /\ UNCHANGED wsVars

\* lines 393-398 and downloadImage: create the local file, download into it
DownloadImage(p, res) ==
    LET h == HostOf(p)
        localSourceImage == SourceFile(Base(cfg[p].key))
    IN
    /\ lpc[p] = "downloadImage"
    /\ res \in {"ok", "nocreate", "nodownload"}
    /\ res # "nocreate" => (cwd[h] = "wd" => wdExists[h])
    /\ trace' = [trace EXCEPT ![p] = Append(@, "downloadImage")]
    /\ lpc' = [lpc EXCEPT ![p] = NextStage("downloadImage", res = "ok")]
    /\ fs' = CASE res = "ok" ->
                    [fs EXCEPT ![h][cwd[h]] = Put(@, localSourceImage, Image(cfg[p].bucket, cfg[p].key))]
               [] res = "nodownload" ->
                    [fs EXCEPT ![h][cwd[h]] = Put(@, localSourceImage, PartialFile)]
               [] res = "nocreate" -> fs
    /\ ret' = CASE res = "ok" -> ret
                [] res = "nodownload" -> [ret EXCEPT ![p] = Result(<<>>, "failed to download s3 file")]
                [] res = "nocreate" -> [ret EXCEPT ![p] = Result(<<>>, "failed to create local file")]
    /\ UNCHANGED << lreq, cfg, fetched, langsAll, li, pending, ninv, cmds, cwd,
                    wdExists, tess, s3, uploaded, overlapped, resolved, ran >>
    /\ UNCHANGED wsVars

\* the exit statuses tried for magick --version, tesseract --version, ldd
VersionOutcomes == { <<TRUE, TRUE, TRUE>>, <<TRUE, FALSE, FALSE>> }

\* every exit status of the three version commands
AllVersionOutcomes == [1..3 -> BOOLEAN]

\* the exit statuses of find and ls: TESSDATA_PREFIX is the directory that
\* init() has made
DiagOutcomes == { <<TRUE, TRUE>> }

\* every exit status of find and ls
AllDiagOutcomes == [1..2 -> BOOLEAN]

\* lines 400-402, getSoftwareVersions, getLibraryVersions: three commands
\* whose results are not looked at
GetSoftwareVersions(p, oks) ==
    LET h == HostOf(p) IN
    /\ lpc[p] = "getSoftwareVersions"
    /\ trace' = [trace EXCEPT ![p] = Append(@, "getSoftwareVersions")]
    /\ lpc' = [lpc EXCEPT ![p] = NextStage("getSoftwareVersions", oks[1] /\ oks[2] /\ oks[3])]
    /\ ran' = [ran EXCEPT ![p] = @ \o << <<"magick", oks[1]>>, <<"tesseract", oks[2]>>,
                                         <<"ldd", oks[3]>> >>]
    /\ cmds' = [cmds EXCEPT ![h] =
                 RunCommand(RunCommand(RunCommand(@,
                     "magick", <<"--version">>, oks[1]),
                     "tesseract", <<"--version">>, oks[2]),
                     "ldd", <<"bin/*", "lib/*">>, oks[3])]
    /\ UNCHANGED << lreq, cfg, ret, fetched, langsAll, li, pending, ninv, cwd,
                    fs, wdExists, tess, s3, uploaded, overlapped, resolved >>
    /\ UNCHANGED wsVars

\* find and ls of TESSDATA_PREFIX: two commands whose results are not
\* looked at
ListTessdata(history, diag) ==
    RunCommand(RunCommand(history, "find", <<"TESSDATA_PREFIX">>, diag[1]),
               "ls", <<"-laFR", "TESSDATA_PREFIX">>, diag[2])

\* lines 404-408 and checkLanguages lines 232-262: list the data directory,
\* expand the requested languages
CheckLanguages(p, diag) ==
    LET h == HostOf(p) IN
    /\ lpc[p] = "checkLanguages"
    /\ trace' = [trace EXCEPT ![p] = Append(@, "checkLanguages")]
    /\ cmds' = [cmds EXCEPT ![h] = ListTessdata(@, diag)]
    /\ ran' = [ran EXCEPT ![p] = @ \o << <<"find", diag[1]>>, <<"ls", diag[2]>> >>]
    /\ langsAll' = [langsAll EXCEPT ![p] = LangsAll(LangStr(cfg[p]))]
    /\ li' = [li EXCEPT ![p] = 1]
    /\ lpc' = [lpc EXCEPT ![p] = "langLoop"]
    /\ UNCHANGED << lreq, cfg, ret, fetched, pending, ninv, cwd,
                    fs, wdExists, tess, s3, uploaded, overlapped, resolved >>
    /\ UNCHANGED wsVars

\* checkLanguages lines 264-287: one round of the loop; a code whose file
\* exists is skipped, else it is fetched as a language, then as a script
CheckLanguage(p, res1, res2) ==
    LET h == HostOf(p)
        l == langsAll[p][li[p]]
        first  == DownloadFile(tess[h][l], res1)
        second == DownloadFile(first.file, res2)
    IN
    /\ lpc[p] = "langLoop"
    /\ li[p] <= Len(langsAll[p])
    /\ IF tess[h][l] # "absent"
       THEN /\ li' = [li EXCEPT ![p] = @ + 1]
            /\ UNCHANGED << tess, fetched, ret, lpc, trace >>
       ELSE IF ~first.err
       THEN /\ tess' = [tess EXCEPT ![h][l] = first.file]
            /\ fetched' = [fetched EXCEPT ![p] = Append(@, <<l, "language">>)]
            /\ li' = [li EXCEPT ![p] = @ + 1]
            /\ UNCHANGED << ret, lpc, trace >>
       ELSE /\ tess' = [tess EXCEPT ![h][l] = second.file]
            /\ fetched' = [fetched EXCEPT ![p] = @ \o << <<l, "language">>, <<l, "script">> >>]
            /\ IF ~second.err
               THEN /\ li' = [li EXCEPT ![p] = @ + 1]
                    /\ UNCHANGED << ret, lpc, trace >>
               ELSE /\ ret' = [ret EXCEPT ![p] = Result(<<>>, "failed to download language file")]
                    /\ lpc' = [lpc EXCEPT ![p] = NextStage("checkLanguages", FALSE)]
                    /\ trace' = [trace EXCEPT ![p] = Append(@, "checkLanguages failed")]
                    /\ li' = li
    /\ UNCHANGED << lreq, cfg, langsAll, pending, ninv, cmds, cwd,
                    fs, wdExists, s3, uploaded, overlapped, resolved, ran >>
    /\ UNCHANGED wsVars

\* checkLanguages returns nil; lines 411-412: list the data directory again
CheckLanguagesDone(p, diag) ==
    LET h == HostOf(p) IN
    /\ lpc[p] = "langLoop"
    /\ li[p] > Len(langsAll[p])
    /\ cmds' = [cmds EXCEPT ![h] = ListTessdata(@, diag)]
    /\ ran' = [ran EXCEPT ![p] = @ \o << <<"find", diag[1]>>, <<"ls", diag[2]>> >>]
    /\ lpc' = [lpc EXCEPT ![p] = NextStage("checkLanguages", TRUE)]
    /\ resolved' = [resolved EXCEPT ![h] = @ \cup {<<LangStr(cfg[p]), langsAll[p]>>}]
    /\ UNCHANGED << lreq, cfg, ret, trace, fetched, langsAll, li, pending, ninv, cwd,
                    fs, wdExists, tess, s3, uploaded, overlapped >>
    /\ UNCHANGED wsVars

\* lines 414-418 and convertImage: run magick on the source image
ConvertImage(p, ok) ==
    LET h == HostOf(p)
        localSourceImage == SourceFile(Base(cfg[p].key))
        dir == fs[h][cwd[h]]
    IN
    /\ lpc[p] = "convertImage"
    /\ ok => localSourceImage \in DOMAIN dir
    /\ trace' = [trace EXCEPT ![p] = Append(@, "convertImage")]
    /\ lpc' = [lpc EXCEPT ![p] = NextStage("convertImage", ok)]
    /\ cmds' = [cmds EXCEPT ![h] =
                 RunCommand(@, "magick",
                            ConvertArgs(localSourceImage, LocalConvertedImage, cfg[p].scale), ok)]
    /\ ran' = [ran EXCEPT ![p] = Append(@, <<"magick", ok>>)]
    /\ IF ok
       THEN /\ fs' = [fs EXCEPT ![h][cwd[h]] =
                        Put(@, LocalConvertedImage, Converted(dir[localSourceImage], cfg[p].scale))]
            /\ ret' = ret
       ELSE /\ ret' = [ret EXCEPT ![p] =
                        CommandError("failed to convert source image",
                                     CommandInfo("magick", <<>>, ok).Output)]
            /\ fs' = fs
    /\ UNCHANGED << lreq, cfg, fetched, langsAll, li, pending, ninv, cwd,
                    wdExists, tess, s3, uploaded, overlapped, resolved >>
    /\ UNCHANGED wsVars

\* the files tesseract has written: all of them when it succeeds, the text
\* alone when it breaks off after the first format, none when it fails at once
RECURSIVE WriteOutputs(_, _, _, _)
WriteOutputs(dir, formats, tif, langStr) ==
    IF formats = <<>> THEN dir
    ELSE WriteOutputs(Put(dir, ResultsFile(Head(formats)), Recognized(Head(formats), tif, langStr)),
                      Tail(formats), tif, langStr)

\* lines 420-424 and ocrImage: run tesseract on the converted image; it
\* succeeds only with complete data files for the languages it is given
OcrImage(p, res) ==
    LET h == HostOf(p)
        dir == fs[h][cwd[h]]
        langStr == LangStr(cfg[p])
        formats == OutputFormats(cfg[p])
    IN
    /\ lpc[p] = "ocrImage"
    /\ res \in {"ok", "partial", "failed"}
    /\ res # "failed" => LocalConvertedImage \in DOMAIN dir
    /\ res = "ok" => \A i \in 1..Len(langStr) : langStr[i] # "" => tess[h][langStr[i]] = "ok"
    /\ trace' = [trace EXCEPT ![p] = Append(@, "ocrImage")]
    /\ lpc' = [lpc EXCEPT ![p] = NextStage("ocrImage", res = "ok")]
    /\ cmds' = [cmds EXCEPT ![h] =
                 RunCommand(@, "tesseract",
                            OcrArgs(LocalConvertedImage, "results", langStr, formats), res = "ok")]
    /\ ran' = [ran EXCEPT ![p] = Append(@, <<"tesseract", res = "ok">>)]
    /\ fs' = CASE res = "ok" ->
                    [fs EXCEPT ![h][cwd[h]] = WriteOutputs(@, formats, dir[LocalConvertedImage], langStr)]
               [] res = "partial" ->
                    [fs EXCEPT ![h][cwd[h]] = WriteOutputs(@, <<"txt">>, dir[LocalConvertedImage], langStr)]
               [] res = "failed" -> fs
    /\ ret' = IF res = "ok" THEN ret
              ELSE [ret EXCEPT ![p] =
                        CommandError("failed to ocr converted image",
                                     CommandInfo("tesseract", <<>>, res = "ok").Output)]
    /\ UNCHANGED << lreq, cfg, fetched, langsAll, li, pending, ninv, cwd,
                    wdExists, tess, s3, uploaded, overlapped, resolved >>
    /\ UNCHANGED wsVars

\* lines 426-444: read results.txt and return it as the response's text
ReadFile(p, ok) ==
    LET h == HostOf(p)
        dir == fs[h][cwd[h]]
    IN
    /\ lpc[p] = "ReadFile"
    /\ ok => LocalResultsTxt \in DOMAIN dir
    /\ trace' = [trace EXCEPT ![p] = Append(@, "ReadFile")]
    /\ lpc' = [lpc EXCEPT ![p] = NextStage("ReadFile", ok)]
    /\ ret' = [ret EXCEPT ![p] = IF ok THEN Result(<<WorkflowResponse(dir[LocalResultsTxt])>>, "")
                                 ELSE Result(<<>>, "failed to read ocr results file")]
    /\ UNCHANGED << lreq, cfg, fetched, langsAll, li, pending, ninv, cmds, cwd,
                    fs, wdExists, tess, s3, uploaded, overlapped, resolved, ran >>
    /\ UNCHANGED wsVars

\* line 383 and saveCommandHistory: write cmds to results.log in the current
\* directory; a write error is swallowed
SaveCommandHistory(p, ok) ==
    LET h == HostOf(p) IN
    /\ lpc[p] = "saveCommandHistory"
    /\ ok => (cwd[h] = "wd" => wdExists[h])
    /\ trace' = [trace EXCEPT ![p] = Append(@, IF ok THEN "saveCommandHistory"
                                               ELSE "saveCommandHistory failed")]
    /\ lpc' = [lpc EXCEPT ![p] = NextStage("saveCommandHistory", ok)]
    /\ fs' = IF ok THEN [fs EXCEPT ![h][cwd[h]] = Put(@, ResultsFile("log"), CommandLog(cmds[h]))]
             ELSE fs
    /\ UNCHANGED << lreq, cfg, ret, fetched, langsAll, li, pending, ninv, cmds, cwd,
                    wdExists, tess, s3, uploaded, overlapped, resolved, ran >>
    /\ UNCHANGED wsVars

\* line 384 and uploadResults lines 170-179: glob results.* in the current
\* directory
UploadResults(p) ==
    LET h == HostOf(p) IN
    /\ lpc[p] = "uploadResults"
    /\ trace' = [trace EXCEPT ![p] = Append(@, "uploadResults")]
    /\ pending' = [pending EXCEPT ![p] = Glob(fs[h][cwd[h]])]
    /\ lpc' = [lpc EXCEPT ![p] = "uploadResult"]
    /\ UNCHANGED << lreq, cfg, ret, fetched, langsAll, li, ninv, cmds, cwd,
                    fs, wdExists, tess, s3, uploaded, overlapped, resolved, ran >>
    /\ UNCHANGED wsVars

\* the object a result file is stored as
S3Key(c, resultFile) == << c.bucket, c.remoteResultsPrefix, resultFile >>

\* variant: an upload that fails becomes the error of the invocation
UploadResultFatal(p, ok) ==
    LET h == HostOf(p)
        resultFile == Head(pending[p])
        dir == fs[h][cwd[h]]
    IN
    /\ lpc[p] = "uploadResult"
    /\ pending[p] # <<>>
    /\ ok => resultFile \in DOMAIN dir
    /\ IF ok
       THEN /\ s3' = Put(s3, S3Key(cfg[p], resultFile), dir[resultFile])
            /\ uploaded' = [uploaded EXCEPT ![p] = @ \cup {<<S3Key(cfg[p], resultFile), dir[resultFile]>>}]
            /\ pending' = [pending EXCEPT ![p] = Tail(@)]
            /\ UNCHANGED << trace, ret >>
       ELSE /\ pending' = [pending EXCEPT ![p] = <<>>]
            /\ trace' = [trace EXCEPT ![p] = Append(@, "uploadResults failed")]
            /\ ret' = [ret EXCEPT ![p] = Result(<<>>, "failed to upload result")]
            /\ UNCHANGED << s3, uploaded >>
    /\ UNCHANGED << lpc, lreq, cfg, fetched, langsAll, li, ninv, cmds, cwd,
                    fs, wdExists, tess, overlapped, resolved, ran >>
    /\ UNCHANGED wsVars

\* uploadResults lines 181-185 and uploadResult: put the next match under
\* the results prefix; the first failure ends the loop
UploadResult(p, ok) ==
    LET h == HostOf(p)
        resultFile == Head(pending[p])
        dir == fs[h][cwd[h]]
    IN
    /\ lpc[p] = "uploadResult"
    /\ pending[p] # <<>>
    /\ ok => resultFile \in DOMAIN dir
    /\ IF ok
       THEN /\ s3' = Put(s3, S3Key(cfg[p], resultFile), dir[resultFile])
            /\ uploaded' = [uploaded EXCEPT ![p] = @ \cup {<<S3Key(cfg[p], resultFile), dir[resultFile]>>}]
            /\ pending' = [pending EXCEPT ![p] = Tail(@)]
            /\ trace' = trace
       ELSE /\ pending' = [pending EXCEPT ![p] = <<>>]
            /\ trace' = [trace EXCEPT ![p] = Append(@, "uploadResults failed")]
            /\ UNCHANGED << s3, uploaded >>
    /\ UNCHANGED << lpc, lreq, cfg, ret, fetched, langsAll, li, ninv, cmds, cwd,
                    fs, wdExists, tess, overlapped, resolved, ran >>
    /\ UNCHANGED wsVars

\* lines 385-386: os.Chdir("/"), os.RemoveAll(localWorkDir); then
\* handleGenericOcrRequest returns
RemoveWorkDir(p) ==
    LET h == HostOf(p) IN
    /\ lpc[p] = "uploadResult"
    /\ pending[p] = <<>>
    /\ trace' = [trace EXCEPT ![p] = @ \o <<"Chdir /", "RemoveAll">>]
    /\ cwd' = [cwd EXCEPT ![h] = "/"]
    /\ wdExists' = [wdExists EXCEPT ![h] = FALSE]
    /\ fs' = [fs EXCEPT ![h]["wd"] = EmptyDir]
    /\ lpc' = [lpc EXCEPT ![p] = NextStage("RemoveAll", TRUE)]
    /\ UNCHANGED << lreq, cfg, ret, fetched, langsAll, li, pending, ninv, cmds,
                    tess, s3, uploaded, overlapped, resolved, ran >>
    /\ UNCHANGED wsVars

\* one step of the invocation under way in p
PipelineStepWith(p, versions, diags) ==
    \/ \E ok \in BOOLEAN : MkdirAll(p, ok)
    \/ \E ok \in BOOLEAN : Chdir(p, ok)
    \/ \E res \in {"ok", "nocreate", "nodownload"} : DownloadImage(p, res)
    \/ \E oks \in versions : GetSoftwareVersions(p, oks)
    \/ \E diag \in diags : CheckLanguages(p, diag)
    \/ \E res1, res2 \in FetchResults : CheckLanguage(p, res1, res2)
    \/ \E diag \in diags : CheckLanguagesDone(p, diag)
    \/ \E ok \in BOOLEAN : ConvertImage(p, ok)
    \/ \E res \in {"ok", "partial", "failed"} : OcrImage(p, res)
    \/ \E ok \in BOOLEAN : ReadFile(p, ok)
    \/ \E ok \in BOOLEAN : SaveCommandHistory(p, ok)
    \/ UploadResults(p)
    \/ \E ok \in BOOLEAN : UploadResult(p, ok)
    \/ RemoveWorkDir(p)

\* the steps with the exit statuses the specifications below explore
PipelineStep(p) == PipelineStepWith(p, VersionOutcomes, DiagOutcomes)

\* init(): the payload's data files are copied to TESSDATA_PREFIX
InitLambda ==
    /\ lpc = [p \in Pipes |-> "idle"]
    /\ lreq = [p \in Pipes |-> Unhandled]
    /\ cfg = [p \in Pipes |-> NoConfig]
    /\ ret = [p \in Pipes |-> NoResult]
    /\ trace = [p \in Pipes |-> <<>>]
    /\ fetched = [p \in Pipes |-> <<>>]
    /\ langsAll = [p \in Pipes |-> <<>>]
    /\ li = [p \in Pipes |-> 1]
    /\ pending = [p \in Pipes |-> <<>>]
    /\ ninv = [p \in Pipes |-> 0]
    /\ cmds = [p \in Pipes |-> <<>>]
    /\ cwd = [p \in Pipes |-> "start"]
    /\ fs = [p \in Pipes |-> [d \in LocalDirs |-> EmptyDir]]
    /\ wdExists = [p \in Pipes |-> FALSE]
    /\ tess = [p \in Pipes |-> [l \in LangCodes |-> IF l \in {"eng", "osd"} THEN "ok" ELSE "absent"]]
    /\ s3 = EmptyDir
    /\ uploaded = [p \in Pipes |-> {}]
    /\ overlapped = FALSE
    /\ resolved = [p \in Pipes |-> {}]
    /\ ran = [p \in Pipes |-> <<>>]

(***************************************************************************)
(* The dispatcher                                                          *)
(***************************************************************************)
InitWs ==
    /\ storage \in { d \in SUBSET InitialDirs : TreeClosed(d) }
    /\ hpc = [h \in Handlers |-> "idle"]
    /\ req = [h \in Handlers |-> NoRequest]
    /\ ocr = [h \in Handlers |-> NoOcr]
    /\ resp = [h \in Handlers |-> NoResponse]
    /\ calls = [h \in Handlers |-> <<>>]
    /\ outcome = [h \in Handlers |-> ""]
    /\ tasks = <<>>
    /\ nreq = 0
    /\ outstanding = {}
    /\ prior = [h \in Handlers |-> {}]
    /\ deleted = {}
    /\ delSeen = [h \in Handlers |-> {}]

Init == InitWs /\ InitLambda

Next ==
    \/ \E h \in Handlers, r \in Requests : GenStart(h, r)
    \/ \E h \in Handlers : GenStat(h)
    \/ \E h \in Handlers, tsErr \in BOOLEAN, tsPages \in PageLists : GenPages(h, tsErr, tsPages)
    \/ \E h \in Handlers : GenLaunch(h)
    \/ \E h \in Handlers : GenReturn(h)
    \/ \E i \in 1..Len(tasks) : GenerateOcr(i)
    \/ \E k \in WorkDirs : DeleteHandler(k)

Spec == Init /\ [][Next]_vars

(***************************************************************************)
(* Resolving the identity of requests: two handlers, each given one        *)
(* request out of KeyRequests                                              *)
(***************************************************************************)
InitKey ==
    /\ InitWs
    /\ InitLambda
    /\ storage = {}

NextKey == \E h \in Handlers, r \in KeyRequests : GenStart(h, r)

SpecKey == InitKey /\ [][NextKey]_vars

(***************************************************************************)
(* One execution environment of the lambda, serving invocations one after  *)
(* the other                                                               *)
(***************************************************************************)
NextLambda ==
    \/ \E r \in LambdaRequests : LambdaInvoke("p1", r, MaxInvocations)
    \/ PipelineStep("p1")

SpecLambda == InitKey /\ [][NextLambda]_vars

(***************************************************************************)
(* Two execution environments, each serving the same workflow request once *)
(***************************************************************************)
NextRace ==
    \E p \in Pipes :
        \/ LambdaInvoke(p, WorkflowEng, 1)
        \/ PipelineStep(p)

SpecRace == InitKey /\ [][NextRace]_vars

(***************************************************************************)
(* One execution environment serving a workflow request for any language   *)
(* string, and then the same request again                                 *)
(***************************************************************************)
\* the codes a language string is joined from; "" is what strings.Split
\* gives for an empty string or next to a stray "+"
LangInputs == {"", "eng", "aze", "aze_cyrl"}

LangStrings == UNION { [1..n -> LangInputs] : n \in 1..MaxLangs }

WorkflowLang(langs) ==
    LambdaRequest(<<"m3">>, <<"m3">>, langs, "50", "bkt", <<"in", "m3.tif">>, <<>>)

NextLangs ==
    \/ \E langs \in LangStrings :
          ninv["p1"] = 0 /\ LambdaInvoke("p1", WorkflowLang(langs), 1)
    \/ ninv["p1"] > 0 /\ LambdaInvoke("p1", lreq["p1"], 2)
    \/ PipelineStep("p1")

SpecLangs == InitKey /\ [][NextLangs]_vars

(***************************************************************************)
(* Properties of the dispatcher                                            *)
(***************************************************************************)
Started(h)  == hpc[h] # "idle"
Accepted(h) == Started(h) /\ outcome[h] # "badrequest"
Called(h, f) == \E i \in 1..Len(calls[h]) : calls[h][i] = f

\* C1: a request whose key was already launched by a handler that had
\* returned before this request started (and was not deleted since) never
\* launches generateOcr again.
C1_NoSecondLaunch ==
    \A h \in Handlers :
        outcome[h] = "launched" => ocr[h].workDir \notin prior[h]

\* C2: a request with a page list and no token is answered 400 and has made
\* no call at all: no os.Stat of the destination, no tsGetPages, no
\* "go generateOcr".
C2_MissingTokenRejected ==
    \A h \in Handlers :
        (Started(h) /\ Len(req[h].pages) > 0 /\ Len(req[h].token) = 0)
            => /\ hpc[h] \in {"ret", "done"}
               /\ outcome[h] = "badrequest"
               /\ resp[h].status = 400
               /\ calls[h] = <<>>

C2_Witness ==
    \E h \in Handlers :
        hpc[h] = "done" /\ Len(req[h].pages) > 0 /\ Len(req[h].token) = 0

\* C6: a key whose delete succeeded has status unknown, and a request for
\* that key that starts afterwards never takes the "already exists" branch:
\* it goes on to the metadata collaborator and, given a usable page,
\* launches generateOcr.
C6_DeleteThenFresh ==
    /\ \A k \in deleted : JobStatus(storage, k) = "unknown"
    /\ \A h \in Handlers :
          (Accepted(h) /\ hpc[h] # "stat" /\ ocr[h].workDir \in delSeen[h])
              => /\ outcome[h] # "existing"
                 /\ ~Called(h, "monitorProgressAndNotifyResults")
                 /\ (hpc[h] = "done" /\ Len(ocr[h].pages) > 0
                        => /\ outcome[h] = "launched"
                           /\ \E i \in 1..Len(tasks) :
                                 tasks[i].ocr.workDir = ocr[h].workDir)

C6_Witness ==
    \E h \in Handlers :
        /\ hpc[h] = "done"
        /\ outcome[h] = "launched"
        /\ ocr[h].workDir \in delSeen[h]

\* C7: two requests with the same pid, unit, page list and token resolve to
\* the same work directory (and are rejected alike), whatever their email.
SameButEmail(r1, r2) ==
    /\ r1.pid = r2.pid
    /\ r1.unit = r2.unit
    /\ r1.pages = r2.pages
    /\ r1.token = r2.token

C7_KeyIgnoresEmail ==
    \A h1, h2 \in Handlers :
        (Started(h1) /\ Started(h2) /\ SameButEmail(req[h1], req[h2]))
            => /\ ocr[h1].workDir = ocr[h2].workDir
               /\ outcome[h1] = outcome[h2]

C7_Witness ==
    \E h1, h2 \in Handlers :
        /\ Accepted(h1) /\ Accepted(h2)
        /\ SameButEmail(req[h1], req[h2])
        /\ req[h1].email # req[h2].email
        /\ Len(req[h1].pages) = 0

\* C8: the key is the token for a request with a page list, else
\* pid "/" n when the unit parameter is the decimal numeral (optional sign,
\* then digits) of an integer n > 0, else the pid.
IsNumeral(s) ==
    LET body == IF s # <<>> /\ Head(s) \in {"+", "-"} THEN Tail(s) ELSE s
    IN  body # <<>> /\ \A i \in 1..Len(body) : body[i] \in Digits

IsPositiveNumeral(s) ==
    /\ IsNumeral(s)
    /\ Head(s) # "-"
    /\ \E i \in 1..Len(s) : s[i] \in Digits \ {"0"}

\* the numeral without its sign and leading zeros
RECURSIVE Canonical(_)
Canonical(s) ==
    IF Head(s) \in {"+", "0"} THEN Canonical(Tail(s)) ELSE s

ExpectedKey(r) ==
    IF r.pages # Empty THEN r.token
    ELSE IF IsPositiveNumeral(r.unit) THEN r.pid \o <<"/">> \o Canonical(r.unit)
    ELSE r.pid

Shape(r) ==
    IF Len(r.pages) > 0 THEN <<"pages", r.token>>
    ELSE IF UnitID(r) > 0 THEN <<"unit", r.pid, UnitID(r)>>
    ELSE <<"full", r.pid>>

C9_KeysNeverCollide ==
    \A h1, h2 \in Handlers :
        (Accepted(h1) /\ Accepted(h2) /\ Shape(req[h1]) # Shape(req[h2]))
            => ocr[h1].workDir # ocr[h2].workDir

\* C10: a handler that launched generateOcr answers with status 202.
C10_LaunchAnswers202 ==
    \A h \in Handlers :
        (hpc[h] = "done" /\ outcome[h] = "launched") => resp[h].status = 202

\* the tasks started for the key of h's request that have not returned
TasksUnderWay(h) ==
    { i \in 1..Len(tasks) :
        tasks[i].ocr.workDir = ocr[h].workDir /\ tasks[i].state = "started" }

\* C11: once generateHandler has started generateOcr in its goroutine, the
\* handler's return is enabled whatever the state of the task; the task's
\* completion is no precondition of the response.
C11_ReturnNeverWaits ==
    \A h \in Handlers :
        (hpc[h] = "ret" /\ outcome[h] = "launched") => ENABLED GenReturn(h)

C11_Witness ==
    \E h \in Handlers :
        /\ hpc[h] = "done"
        /\ outcome[h] = "launched"
        /\ resp[h].status # 0
        /\ TasksUnderWay(h) # {}

\* no page of the list has an identifier
NoUsablePage(tsPages) == \A i \in 1..Len(tsPages) : tsPages[i].PID = ""

\* a step of generateHandler h that starts no task and leaves the storage
\* directory as it is
NothingStarted(h) ==
    /\ tasks' = tasks
    /\ storage' = storage
    /\ ~Called(h, "go generateOcr")'

\* C12: when tsGetPages returns no page, or only pages with an empty pid,
\* generateHandler sets status 404 and goes to its return, having started
\* no task and created no directory; so it stays until it has returned.
C12_NoPagesNotFound ==
    /\ [][\A h \in Handlers : \A tsPages \in PageLists :
            (GenPages(h, FALSE, tsPages) /\ NoUsablePage(tsPages))
                => /\ hpc'[h] = "ret"
                   /\ outcome'[h] = "nopages"
                   /\ resp'[h].status = 404
                   /\ NothingStarted(h)]_vars
    /\ [][\A h \in Handlers :
            (outcome[h] = "nopages" /\ GenReturn(h))
                => /\ resp'[h].status = 404
                   /\ NothingStarted(h)]_vars

C12_Witness ==
    \E h \in Handlers :
        /\ hpc[h] = "done"
        /\ outcome[h] = "nopages"
        /\ Called(h, "tsGetPages")

\* C13: when tsGetPages returns an error, whatever pages come with it,
\* generateHandler sets status 404 and goes to its return, having started
\* no task and left the storage directory unchanged; so it stays until it
\* has returned.
C13_CollaboratorErrorNotFound ==
    /\ [][\A h \in Handlers : \A tsPages \in PageLists :
            GenPages(h, TRUE, tsPages)
                => /\ hpc'[h] = "ret"
                   /\ outcome'[h] = "tserror"
                   /\ resp'[h].status = 404
                   /\ NothingStarted(h)]_vars
    /\ [][\A h \in Handlers :
            (outcome[h] = "tserror" /\ GenReturn(h))
                => /\ resp'[h].status = 404
                   /\ NothingStarted(h)]_vars

C13_Witness ==
    \E h \in Handlers :
        /\ hpc[h] = "done"
        /\ outcome[h] = "tserror"
        /\ Called(h, "tsGetPages")

(***************************************************************************)
(* Claims about the worker pipeline                                        *)
(***************************************************************************)
\* an invocation that got as far as handleGenericOcrRequest and has returned
Returned(p) == lpc[p] = "returned" /\ trace[p] # <<>>

Has(t, step) == \E i \in 1..Len(t) : t[i] = step

\* the deferred function ran to its end: saveCommandHistory, then
\* uploadResults, then os.Chdir("/") and os.RemoveAll were called, in that
\* order and as the last things of the invocation, and the work directory
\* is gone
CleanupRan(p) ==
    LET t == trace[p]
        n == Len(t)
    IN  /\ n >= 4
        /\ t[n] = "RemoveAll"
        /\ t[n - 1] = "Chdir /"
        /\ \E i, j \in 1..(n - 2) :
              /\ i < j
              /\ t[i] \in {"saveCommandHistory", "saveCommandHistory failed"}
              /\ t[j] = "uploadResults"
        /\ ~wdExists[HostOf(p)]

FailedRecognition(c) == c.Command = "tesseract" /\ c.Output = "failed"

\* results.log under the destination prefix of p's job
LogKey(p) == S3Key(cfg[p], ResultsFile("log"))

\* p's invocation failed at ocrImage and every upload it tried succeeded
FailedAtOcr(p) ==
    /\ Returned(p)
    /\ ret[p].err = "failed to ocr converted image"
    /\ ~Has(trace[p], "uploadResults failed")

HoldsFailedRecord(log) ==
    \E i \in 1..Len(log.commands) : FailedRecognition(log.commands[i])

StoreContents == { <<k, s3[k]>> : k \in DOMAIN s3 }

\* C5: when two pipelines for the same job have run at the same time and
\* both have returned, the store holds what one pipeline run has put there:
\* the artifacts and the log of one and the same run.
C5_RaceIsRedundantWork ==
    (overlapped /\ \A p \in Pipes : Returned(p))
        => \E p \in Pipes : StoreContents = uploaded[p]

\* the codes of a sequence
Codes(seq) == { seq[i] : i \in 1..Len(seq) }

\* the pairing table: a code and the code it brings along
Pairing ==
    { <<"aze", "aze_cyrl">>, <<"aze_cyrl", "aze">>,
      <<"uzb", "uzb_cyrl">>, <<"uzb_cyrl", "uzb">> }

\* osd, the requested codes that are not empty, and their paired codes
RequiredCodes(langStr) ==
    LET asked == Codes(langStr) \ {""}
    IN  {"osd"} \cup asked \cup { pr[2] : pr \in { q \in Pairing : q[1] \in asked } }

\* checkLanguages has built its list in p's invocation
Expanded(p) == Has(trace[p], "checkLanguages")

\* C14: the codes checkLanguages goes through are osd, every non-empty
\* requested code and the paired code of each requested code that has one;
\* "aze" gives osd, aze, aze_cyrl; "aze_cyrl" brings aze; the empty string
\* gives osd alone.
C14_RequiredLanguages ==
    /\ \A p \in Pipes :
          Expanded(p) =>
              /\ Codes(langsAll[p]) = RequiredCodes(LangStr(cfg[p]))
              /\ LangStr(cfg[p]) = <<"aze">> => Codes(langsAll[p]) = {"osd", "aze", "aze_cyrl"}
              /\ LangStr(cfg[p]) = <<"aze_cyrl">> => "aze" \in Codes(langsAll[p])
              /\ Codes(LangStr(cfg[p])) = {""} => Codes(langsAll[p]) = {"osd"}
    /\ Codes(LangsAll(NoLang)) = {"osd"}

C14_Witness ==
    \E p \in Pipes :
        /\ Expanded(p)
        /\ LangStr(cfg[p]) = <<"aze_cyrl">>
        /\ Codes(langsAll[p]) = {"osd", "aze", "aze_cyrl"}

\* checkLanguages has already succeeded for p's language string in p's
\* environment, in an earlier call
ResolvedBefore(p) ==
    /\ lpc[p] \in {"checkLanguages", "langLoop"}
    /\ \E pr \in resolved[HostOf(p)] : pr[1] = LangStr(cfg[p])

\* C15: a call of checkLanguages for a string it has succeeded for before
\* builds the same list of codes, fetches nothing, leaves the data files as
\* they are and does not fail; and no call fetches the same URL twice,
\* whatever codes its list repeats.
C15_ResolutionIdempotent ==
    /\ [](\A p \in Pipes :
            /\ \A i, j \in 1..Len(fetched[p]) : i # j => fetched[p][i] # fetched[p][j]
            /\ (ResolvedBefore(p) /\ lpc[p] = "langLoop") => fetched[p] = <<>>)
    /\ [][\A p \in Pipes :
            ResolvedBefore(p) =>
                /\ (\E diag \in AllDiagOutcomes : CheckLanguages(p, diag)) =>
                      \E pr \in resolved[HostOf(p)] :
                          pr[1] = LangStr(cfg[p]) /\ pr[2] = langsAll'[p]
                /\ fetched'[p] = <<>>
                /\ tess' = tess
                /\ lpc'[p] \in {"checkLanguages", "langLoop", NextStage("checkLanguages", TRUE)}
                /\ ret'[p] = ret[p]]_vars

C15_Witness ==
    \E p \in Pipes :
        /\ ninv[p] = 2
        /\ Has(trace[p], "convertImage")
        /\ fetched[p] = <<>>
        /\ LangStr(cfg[p]) = <<"aze", "aze_cyrl">>
        /\ tess[HostOf(p)]["aze"] = "ok"
        /\ tess[HostOf(p)]["aze_cyrl"] = "ok"

\* the code checkLanguages is at, and whether its data file is missing
CodeAt(p) == langsAll[p][li[p]]
FileMissing(p) ==
    /\ lpc[p] = "langLoop"
    /\ li[p] <= Len(langsAll[p])
    /\ tess[HostOf(p)][CodeAt(p)] = "absent"

LanguageURL(p) == <<CodeAt(p), "language">>
ScriptURL(p)   == <<CodeAt(p), "script">>

\* C16: for a code without a data file checkLanguages fetches the language
\* URL, and the script URL only when that fetch failed; when both fail it
\* returns the error without going on to the next code, nothing more is
\* fetched, and the invocation ends in that error with neither magick nor
\* tesseract run.
C16_FetchOrderAndAbort ==
    /\ [][\A p \in Pipes : \A res1, res2 \in FetchResults :
            (FileMissing(p) /\ CheckLanguage(p, res1, res2)) =>
                IF res1 = "ok"
                THEN /\ fetched'[p] = Append(fetched[p], LanguageURL(p))
                     /\ li'[p] = li[p] + 1
                     /\ lpc'[p] = "langLoop"
                ELSE /\ fetched'[p] = fetched[p] \o <<LanguageURL(p), ScriptURL(p)>>
                     /\ IF res2 = "ok"
                        THEN li'[p] = li[p] + 1 /\ lpc'[p] = "langLoop"
                        ELSE /\ li'[p] = li[p]
                             /\ lpc'[p] = "saveCommandHistory"
                             /\ Has(trace'[p], "checkLanguages failed")
                             /\ ret'[p] = Result(<<>>, "failed to download language file")]_vars
    /\ [][\A p \in Pipes :
            (Has(trace[p], "checkLanguages failed") /\ ninv' = ninv)
                => fetched'[p] = fetched[p] /\ ret'[p] = ret[p]]_vars
    /\ [](\A p \in Pipes :
            Has(trace[p], "checkLanguages failed")
                => /\ ~Has(trace[p], "convertImage")
                   /\ ~Has(trace[p], "ocrImage")
                   /\ ~Has(trace[p], "ReadFile")
                   /\ \A i \in 1..Len(cmds[HostOf(p)]) :
                         cmds[HostOf(p)][i].Command \notin {"magick", "tesseract"}
                            \/ cmds[HostOf(p)][i].Arguments = <<"--version">>)

C16_Witness ==
    \E p \in Pipes :
        /\ Returned(p)
        /\ Has(trace[p], "checkLanguages failed")
        /\ ret[p].err = "failed to download language file"
        /\ Len(fetched[p]) = 3
        /\ li[p] < Len(langsAll[p])

\* the files of a directory whose name begins with the results stem
ResultFiles(dir) == { f \in DOMAIN dir : f[1] = "results." }

\* a file of a directory, as the object it is stored as for p's job
Stored(p, dir, f) == << S3Key(cfg[p], f), dir[f] >>

\* the upload loop of p's cleanup is over and the directory still there
UploadsOver(p) == lpc[p] = "uploadResult" /\ pending[p] = <<>>

WorkDirOf(p) == fs[HostOf(p)]["wd"]

Entered(p) == Has(trace[p], "Chdir") /\ cwd[HostOf(p)] = "wd"

\* the first n matches of the pattern, as stored objects
FirstStored(p, n) ==
    { Stored(p, WorkDirOf(p), Glob(WorkDirOf(p))[i]) : i \in 1..n }

Stages ==
    << "downloadImage", "getSoftwareVersions", "checkLanguages",
       "convertImage", "ocrImage", "ReadFile" >>

IsStage(step) == step \in Codes(Stages)

\* the stages p's invocation has started, in order
StageTrace(p) == SelectSeq(trace[p], IsStage)

IsPrefix(s, t) == Len(s) <= Len(t) /\ \A i \in 1..Len(s) : s[i] = t[i]

\* a stage of p's invocation has failed
StageFailed(p) == ret[p].err # ""

\* C18: the stages an invocation has started are an initial part of
\* download, version check, language resolution, conversion, recognition,
\* result read; once a stage has failed no further stage starts; an
\* invocation that returns without having gone through all of them, or
\* whose last stage failed, returns an error and no text.
C18_StagesInOrder ==
    /\ [](\A p \in Pipes :
            /\ IsPrefix(StageTrace(p), Stages)
            /\ Returned(p) =>
                  /\ StageTrace(p) # Stages => StageFailed(p)
                  /\ StageFailed(p) => ret[p].out = <<>>
                  /\ ~StageFailed(p) => ret[p].out # <<>>)
    /\ [][\A p \in Pipes :
            (StageFailed(p) /\ ninv' = ninv)
                => /\ StageTrace(p)' = StageTrace(p)
                   /\ ret'[p] = ret[p]]_vars

C18_Witness ==
    \E p \in Pipes :
        /\ Returned(p)
        /\ StageTrace(p) = SubSeq(Stages, 1, 4)
        /\ ret[p].err = "failed to convert source image"

\* step a comes before step b in a trace
Before(t, a, b) == \E i, j \in 1..Len(t) : i < j /\ t[i] = a /\ t[j] = b

\* language resolution has succeeded in p's invocation
LanguagesResolved(p) ==
    /\ Has(trace[p], "checkLanguages")
    /\ ~Has(trace[p], "checkLanguages failed")
    /\ <<LangStr(cfg[p]), langsAll[p]>> \in resolved[HostOf(p)]
    /\ \A c \in Codes(langsAll[p]) : tess[HostOf(p)][c] # "absent"

\* the image has been normalized in p's invocation: magick convert has run
\* and succeeded
ImageConverted(p) ==
    /\ Has(trace[p], "convertImage")
    /\ \E i \in 1..Len(cmds[HostOf(p)]) :
          /\ cmds[HostOf(p)][i].Command = "magick"
          /\ Len(cmds[HostOf(p)][i].Arguments) > 1
          /\ cmds[HostOf(p)][i].Output = "ok"

\* C19 as stated: an invocation that has started language resolution has
\* normalized the image before, and one that has started recognition has
\* done so after both have succeeded.
C19_ConvertThenLanguages ==
    \A p \in Pipes :
        /\ Has(trace[p], "checkLanguages") => Before(trace[p], "convertImage", "checkLanguages")
        /\ Has(trace[p], "ocrImage") => LanguagesResolved(p) /\ ImageConverted(p)

\* C19 as amended: an invocation that has started normalizing the image
\* has resolved the languages before, successfully, and one that has
\* started recognition has done so after both have succeeded.
C19_LanguagesThenConvert ==
    \A p \in Pipes :
        /\ Has(trace[p], "convertImage")
              => Before(trace[p], "checkLanguages", "convertImage") /\ LanguagesResolved(p)
        /\ Has(trace[p], "ocrImage")
              => /\ LanguagesResolved(p) /\ ImageConverted(p)
                 /\ Before(trace[p], "convertImage", "ocrImage")

C19_Witness ==
    \E p \in Pipes :
        /\ Has(trace[p], "ocrImage")
        /\ fetched[p] # <<>>
        /\ LanguagesResolved(p)
        /\ ImageConverted(p)

\* p has taken the step
Stepped(p) ==
    << lpc[p], li[p], pending[p], trace[p] >>' # << lpc[p], li[p], pending[p], trace[p] >>

\* the local state p's invocation works with: the files of its
\* environment, its work directory among them, and where it stands
LocalState(p) == << fs[HostOf(p)], wdExists[HostOf(p)], cwd[HostOf(p)] >>

Commands(history) ==
    [i \in 1..Len(history) |-> <<history[i].Command, history[i].Output = "ok">>]

\* the log p's invocation has put into the store, if any
LogsPut(p) == { u[2] : u \in { v \in uploaded[p] : v[1] = LogKey(p) } }

NextRaceLangs ==
    \E p \in Pipes :
        \/ LambdaInvoke(p, WorkflowAze, 1)
        \/ PipelineStep(p)

SpecRaceLangs == InitKey /\ [][NextRaceLangs]_vars

(***************************************************************************)
(* C22: the language cache under pipelines that run at the same time       *)
(***************************************************************************)
\* checkLanguages has returned without error in p's invocation
PassedResolution(p) ==
    /\ Has(trace[p], "checkLanguages")
    /\ ~Has(trace[p], "checkLanguages failed")
    /\ lpc[p] # "langLoop"

\* C22: when pipelines have resolved the same missing language at the same
\* time, a pipeline that has passed language resolution has a complete
\* data file for every code it requires, and once the pipelines have
\* returned no cached data file is a partial copy.
C22_CacheSafeUnderRace ==
    (overlapped /\ \A p \in Pipes : Has(trace[p], "checkLanguages")) =>
        /\ \A p \in Pipes :
              PassedResolution(p) =>
                  \A c \in Codes(langsAll[p]) : tess[HostOf(p)][c] = "ok"
        /\ (\A p \in Pipes : Returned(p)) =>
              \A p \in Pipes : \A c \in LangCodes : tess[HostOf(p)][c] # "partial"

(***************************************************************************)
(* C23: the command log is written once, from a fresh trail                *)
(***************************************************************************)
\* the places of step in t
Places(t, step) == { i \in 1..Len(t) : t[i] = step }

\* the calls of saveCommandHistory in p's invocation: those that wrote
\* results.log and those that could not
LogWrites(p)   == Places(trace[p], "saveCommandHistory")
LogAttempts(p) == LogWrites(p) \cup Places(trace[p], "saveCommandHistory failed")

\* what may follow saveCommandHistory in an invocation
AfterLog == {"uploadResults", "uploadResults failed", "Chdir /", "RemoveAll"}

C24_TrailAppendOnly ==
    /\ [](\A p \in Pipes :
            \A i \in 1..Len(cmds[HostOf(p)]) :
                DOMAIN cmds[HostOf(p)][i] = {"Command", "Arguments", "Output"})
    /\ [][\A p \in Pipes :
            (Running(p) /\ ninv'[p] = ninv[p]) =>
                /\ IsPrefix(cmds[HostOf(p)], cmds'[HostOf(p)])
                /\ IsPrefix(ran[p], ran'[p])
                /\ Commands(cmds'[HostOf(p)]) = ran'[p]]_vars

\* the trail holds the record of a failed command, and records of commands
\* run after it
C24_Witness ==
    \E p \in Pipes :
        /\ Running(p)
        /\ Len(cmds[HostOf(p)]) >= 6
        /\ cmds[HostOf(p)][2].Output = "failed"
        /\ cmds[HostOf(p)][6].Output = "ok"

(***************************************************************************)
(* One execution environment serving one workflow request, with every exit *)
(* status of the version and diagnostic commands                           *)
(***************************************************************************)
NextDiag ==
    \/ \E r \in {WorkflowEng, WorkflowAze} : LambdaInvoke("p1", r, 1)
    \/ PipelineStepWith("p1", AllVersionOutcomes, AllDiagOutcomes)

SpecDiag == InitKey /\ [][NextDiag]_vars

(***************************************************************************)
(* C25: the version check never fails the pipeline                         *)
(***************************************************************************)
\* the commands of the records a step has added to p's trail, in order
Added(p) ==
    LET old == cmds[HostOf(p)]
        new == cmds'[HostOf(p)]
    IN  IF IsPrefix(old, new)
        THEN [i \in 1..(Len(new) - Len(old)) |-> new[Len(old) + i].Command]
        ELSE << "records lost" >>

\* C25: whatever the exit statuses of magick --version, tesseract
\* --version and ldd, the version check hands over to language resolution
\* with the return value untouched and a record of each command in the
\* trail; the same holds for find and ls before and after language
\* resolution, which goes on to image conversion.
C25_VersionCheckNeverFails ==
    [][\A p \in Pipes :
          /\ (lpc[p] = "getSoftwareVersions" /\ lpc'[p] # lpc[p]) =>
                /\ lpc'[p] = "checkLanguages"
                /\ ret'[p] = ret[p]
                /\ Added(p) = <<"magick", "tesseract", "ldd">>
          /\ (lpc[p] = "checkLanguages" /\ lpc'[p] # lpc[p]) =>
                /\ lpc'[p] = "langLoop"
                /\ ret'[p] = ret[p]
                /\ Added(p) = <<"find", "ls">>
          /\ (lpc[p] = "langLoop" /\ lpc'[p] # lpc[p] /\ ret'[p] = ret[p]) =>
                /\ lpc'[p] = "convertImage"
                /\ Added(p) = <<"find", "ls">>]_vars

\* every version and diagnostic command has failed, and the pipeline has
\* succeeded
C25_Witness ==
    /\ Returned("p1")
    /\ ret["p1"].err = ""
    /\ ret["p1"].out # <<>>
    /\ Len(ran["p1"]) = 9
    /\ \A i \in 1..7 : ~ran["p1"][i][2]

(***************************************************************************)
(* C26: an upload that fails during the cleanup                            *)
(***************************************************************************)
\* an upload of p's cleanup has failed
UploadFailed(p) == Has(trace[p], "uploadResults failed")

\* the directory the cleanup of p's invocation works in
CleanupDir(p) == fs[HostOf(p)][cwd[HostOf(p)]]

\* the store holds every result file of p's invocation under its prefix
StoreComplete(p) ==
    \A f \in ResultFiles(CleanupDir(p)) :
        /\ S3Key(cfg[p], f) \in DOMAIN s3
        /\ s3[S3Key(cfg[p], f)] = CleanupDir(p)[f]

\* the steps of the cleanup
InCleanup(p) == lpc[p] \in {"saveCommandHistory", "uploadResults", "uploadResult"}

\* C26 as stated: the cleanup leaves the return value of the invocation as
\* it was; after an upload has failed the work directory is removed all
\* the same, and the store is left without the complete set of the result
\* files under the job's prefix.
C26_UploadFailureBestEffort ==
    /\ [](\A p \in Pipes :
            UploadFailed(p) =>
                /\ lpc[p] = "uploadResult" => ~StoreComplete(p)
                /\ Returned(p) => CleanupRan(p))
    /\ [][\A p \in Pipes : InCleanup(p) => ret'[p] = ret[p]]_vars

\* C26 as amended: the cleanup leaves the return value of the invocation
\* as it was; after an upload has failed the loop is over, the work
\* directory is removed all the same, and this invocation has not put the
\* complete set of its result files (the prefix may still hold the objects
\* of an earlier run of the job).
C26_UploadFailureOwnSetIncomplete ==
    /\ [](\A p \in Pipes :
            UploadFailed(p) =>
                /\ lpc[p] = "uploadResult" =>
                      /\ pending[p] = <<>>
                      /\ \E f \in ResultFiles(CleanupDir(p)) :
                            Stored(p, CleanupDir(p), f) \notin uploaded[p]
                /\ Returned(p) => CleanupRan(p))
    /\ [][\A p \in Pipes : InCleanup(p) => ret'[p] = ret[p]]_vars

\* a pipeline that succeeded has returned its text although an upload of
\* its cleanup had failed, and the work directory is gone
C26_Witness ==
    \E p \in Pipes :
        /\ Returned(p)
        /\ UploadFailed(p)
        /\ ret[p].err = ""
        /\ ret[p].out # <<>>
        /\ ~wdExists[HostOf(p)]

(***************************************************************************)
(* C27: what a failed invocation leaves to the next one                    *)
(***************************************************************************)
\* C27: an invocation starts as in an environment no job has failed in,
\* with an empty trail and no work directory, and language resolution
\* treats it so: a pipeline that has passed language resolution has a
\* complete data file for every code it requires, fetched now if it was
\* not there, whatever an earlier invocation of the environment failed at.
C27_FailureScopedToJob ==
    \A p \in Pipes :
        /\ lpc[p] = "MkdirAll" =>
              /\ cmds[HostOf(p)] = <<>>
              /\ ~wdExists[HostOf(p)]
              /\ WorkDirOf(p) = EmptyDir
        /\ PassedResolution(p) =>
              \A c \in Codes(langsAll[p]) : tess[HostOf(p)][c] = "ok"

(***************************************************************************)
(* One execution environment serving two invocations that are never left   *)
(* waiting:                                                                *)
(* every download, fetch, command and upload returns, so the step that     *)
(* waits for it is taken                                                   *)
(***************************************************************************)
NextFair ==
    \/ \E r \in LambdaRequests : LambdaInvoke("p1", r, 2)
    \/ PipelineStep("p1")

SpecFair == InitKey /\ [][NextFair]_vars /\ WF_vars(PipelineStep("p1"))

(***************************************************************************)
(* C28: an invocation terminates, and runs no stage twice                  *)
(***************************************************************************)
\* no step occurs twice in t
NoRepeat(t) == \A i, j \in 1..Len(t) : i # j => t[i] # t[j]

\* p's invocation has ended in Succeeded (a text, no error) or in Failed
\* (an error, no text)
Terminal(p) ==
    \/ ret[p].err = "" /\ ret[p].out # <<>>
    \/ ret[p].err # "" /\ ret[p].out = <<>>

\* C28 as stated: an invocation that has returned has ended in Succeeded
\* or Failed and has then run the cleanup, and no step of it was executed
\* twice.
C28_TerminalThenCleanup ==
    \A p \in Pipes :
        /\ NoRepeat(trace[p])
        /\ Returned(p) => (Terminal(p) /\ CleanupRan(p))

\* C28 as amended: an invocation under way returns in the end; no step of
\* it is executed twice; when it has returned it has ended in Succeeded or
\* Failed and has then run the cleanup, unless what failed was the
\* creation of the work directory, after which it returns at once.
C28_TerminatesEachStageOnce ==
    /\ \A p \in Pipes : Running(p) ~> Returned(p)
    /\ [](\A p \in Pipes :
            /\ NoRepeat(trace[p])
            /\ NoRepeat(fetched[p])
            /\ Returned(p) =>
                  /\ Terminal(p)
                  /\ IF ret[p].err = "failed to create work dir"
                     THEN trace[p] = <<"MkdirAll">>
                     ELSE CleanupRan(p))

\* an invocation has gone through every stage, ended in Succeeded and run
\* the cleanup
C28_Witness ==
    \E p \in Pipes :
        /\ Returned(p)
        /\ ret[p].err = ""
        /\ StageTrace(p) = Stages
        /\ CleanupRan(p)

(***************************************************************************)
(* C29: a destination that exists is handed to the status/notify logic     *)
(***************************************************************************)
\* C29: when generateHandler probes a destination that exists, it calls
\* monitorProgressAndNotifyResults and goes to its return with no answer
\* of its own written; from then on the handler of that request has called
\* neither tsGetPages nor tsGetText and has started no generateOcr.
C29_ExistingDelegates ==
    /\ [](\A h \in Handlers :
            outcome[h] = "existing" =>
                /\ hpc[h] \in {"ret", "done"}
                /\ calls[h] = <<"os.Stat", "monitorProgressAndNotifyResults">>
                /\ ~Called(h, "tsGetPages")
                /\ ~Called(h, "tsGetText")
                /\ ~Called(h, "go generateOcr"))
    /\ [][\A h \in Handlers :
            (hpc[h] = "stat" /\ hpc'[h] # "stat"
               /\ DestDir(ocr[h].workDir) \in storage) =>
                /\ outcome'[h] = "existing"
                /\ hpc'[h] = "ret"
                /\ tasks' = tasks
                /\ resp'[h] = NoResponse]_vars

\* a handler has returned for a request whose destination exists
C29_Witness ==
    \E h \in Handlers :
        /\ hpc[h] = "done"
        /\ outcome[h] = "existing"
        /\ ocr[h].destDir \in storage

(***************************************************************************)
(* C30: the dispatcher does not write to the storage directory             *)
(***************************************************************************)
\* C30: no step of generateHandler, on any of its paths, changes the
\* storage directory, and no step of the dispatcher process, the launched
\* generateOcr included, brings a directory into existence.
C30_DispatcherNeverWrites ==
    /\ [][\A h \in Handlers : hpc'[h] # hpc[h] => storage' = storage]_vars
    /\ [][storage' \subseteq storage]_vars

\* handlers have returned on the launch path and on the already-exists
\* path, the launched task has returned, and its destination is not there
C30_Witness ==
    /\ \E h \in Handlers : hpc[h] = "done" /\ outcome[h] = "launched"
    /\ \E h \in Handlers : hpc[h] = "done" /\ outcome[h] = "existing"
    /\ \E i \in 1..Len(tasks) :
          /\ tasks[i].state = "returned"
          /\ tasks[i].ocr.destDir \notin storage

(***************************************************************************)
(* C31: pages without an identifier are dropped                            *)
(***************************************************************************)
HasPid(page) == page.PID # ""

\* C31: the pages generateHandler keeps from an answer of tsGetPages are
\* the pages of the answer that have a pid, in the order of the answer;
\* generateOcr is started with the pages kept, and no task ever holds a
\* page without a pid.
C31_PagesWithoutPidDropped ==
    /\ [](\A i \in 1..Len(tasks) :
            /\ \A j \in 1..Len(tasks[i].ocr.pages) : HasPid(tasks[i].ocr.pages[j])
            /\ \E tsPages \in PageLists :
                  tasks[i].ocr.pages = SelectSeq(tsPages, HasPid))
    /\ [][\A h \in Handlers :
            /\ \A tsPages \in PageLists :
                  GenPages(h, FALSE, tsPages) =>
                      ocr'[h].pages = SelectSeq(tsPages, HasPid)
            /\ (hpc[h] = "launch" /\ hpc'[h] # "launch") =>
                  /\ Len(tasks') = Len(tasks) + 1
                  /\ tasks'[Len(tasks')].ocr.pages = ocr[h].pages]_vars

\* a task was started with the two pages that have a pid, in the order of
\* an answer that held a page without one between them
C31_Witness ==
    \E i \in 1..Len(tasks) :
        /\ Len(tasks[i].ocr.pages) = 2
        /\ tasks[i].ocr.pages[1].PID = "p1"
        /\ tasks[i].ocr.pages[2].PID = "p2"

(***************************************************************************)
(* C32: the output formats asked of tesseract                              *)
(***************************************************************************)
\* the records of recognition runs in a history
IsRecognition(c) == c.Command = "tesseract" /\ c.Arguments # <<"--version">>

\* the formats a recognition run was asked for: its arguments after the
\* image, the output base, --psm 1 and -l with the language string
FormatsAsked(c) == SubSeq(c.Arguments, 7, Len(c.Arguments))

\* the additional formats of a caller mode
ModeFormats(r) ==
    IF Route(r) = "workflow" THEN <<"hocr">> ELSE <<"hocr", "pdf">>

\* C32: every recognition run of an invocation is asked for plain text
\* first and then for the additional formats of the caller mode: hocr for
\* a workflow request, hocr and pdf for a standalone request; when the
\* run succeeds a result file of each of these formats is written.
C32_TxtFirstThenModeFormats ==
    \A p \in Pipes :
        Running(p) =>
            \A i \in 1..Len(cmds[HostOf(p)]) :
                LET c == cmds[HostOf(p)][i] IN
                IsRecognition(c) =>
                    /\ Len(c.Arguments) >= 7
                    /\ c.Arguments[7] = "txt"
                    /\ FormatsAsked(c) = <<"txt">> \o ModeFormats(lreq[p])
                    /\ (c.Output = "ok" /\ lpc[p] = "ReadFile") =>
                          \A k \in 1..Len(FormatsAsked(c)) :
                              ResultsFile(FormatsAsked(c)[k]) \in DOMAIN CleanupDir(p)

\* recognition has run for a standalone request and for a workflow
\* request: p1 is at the end of a successful standalone run while the
\* store holds the hocr of an earlier workflow run
C32_Witness ==
    /\ lpc["p1"] = "ReadFile"
    /\ Route(lreq["p1"]) = "standalone"
    /\ \E i \in 1..Len(cmds["p1"]) :
          IsRecognition(cmds["p1"][i]) /\ cmds["p1"][i].Output = "ok"
    /\ ResultsFile("pdf") \in DOMAIN CleanupDir("p1")
    /\ \E k \in DOMAIN s3 : k[3] = ResultsFile("hocr") /\ k[2][1] = "results"

(***************************************************************************)
(* C33: recognition runs on the language string that was resolved          *)
(***************************************************************************)
\* the language string of a request: its Lang, or eng when that is empty
RequestedLangs(r) == IF r.Lang = NoLang THEN <<"eng">> ELSE r.Lang

\* the language string a recognition run was given with -l
LangsGiven(c) == c.Arguments[6]

\* C33: every recognition run of an invocation is given the language
\* string of the request, or eng when that is empty; checkLanguages has
\* returned without error for this very string earlier in the invocation,
\* and every code of the string is among the codes it has gone through
\* and has its data file in TESSDATA_PREFIX.
C33_RecognitionUsesResolvedLangs ==
    \A p \in Pipes :
        Running(p) =>
            \A i \in 1..Len(cmds[HostOf(p)]) :
                LET c == cmds[HostOf(p)][i] IN
                IsRecognition(c) =>
                    /\ LangsGiven(c) = RequestedLangs(lreq[p])
                    /\ PassedResolution(p)
                    /\ Before(trace[p], "checkLanguages", "ocrImage")
                    /\ langsAll[p] = LangsAll(LangsGiven(c))
                    /\ \A k \in 1..Len(LangsGiven(c)) :
                          LangsGiven(c)[k] # "" =>
                              /\ LangsGiven(c)[k] \in Codes(langsAll[p])
                              /\ tess[HostOf(p)][LangsGiven(c)[k]] # "absent"

\* recognition has run with a language whose data file this invocation
\* has fetched
C33_Witness ==
    \E p \in Pipes :
        /\ Running(p)
        /\ fetched[p] # <<>>
        /\ fetched[p][1][1] = "aze"
        /\ \E i \in 1..Len(cmds[HostOf(p)]) :
              /\ IsRecognition(cmds[HostOf(p)][i])
              /\ LangsGiven(cmds[HostOf(p)][i])[1] = "aze"

(***************************************************************************)
(* C34: the normalization call                                             *)
(***************************************************************************)
\* the records of conversion runs in a history
IsConversion(c) == c.Command = "magick" /\ c.Arguments # <<"--version">>

\* the places of the arguments of a conversion run: the input, the resize
\* option, its value and the output
InputArg  == 8
ResizeOpt == 11
ResizeArg == 12
OutputArg == 13

\* C34: every conversion run of an invocation is asked to resize by the
\* scale of the job in percent and to read frame 0 of the downloaded
\* source, and nothing else of it; when the run has failed the invocation
\* returns the conversion error with the output of the command in it, and
\* no recognition is run.
C34_ResizeFirstFrameOrAbort ==
    \A p \in Pipes :
        Running(p) =>
            \A i \in 1..Len(cmds[HostOf(p)]) :
                LET c == cmds[HostOf(p)][i] IN
                IsConversion(c) =>
                    /\ Len(c.Arguments) = OutputArg
                    /\ c.Arguments[ResizeOpt] = "-resize"
                    /\ c.Arguments[ResizeArg] = <<cfg[p].scale, "%">>
                    /\ c.Arguments[InputArg] = <<SourceFile(Base(cfg[p].key)), "[0]">>
                    /\ c.Arguments[OutputArg] = LocalConvertedImage
                    /\ c.Output = "failed" =>
                          /\ ret[p].err = "failed to convert source image"
                          /\ ret[p].detail = c.Output
                          /\ ret[p].out = <<>>
                          /\ i = Len(cmds[HostOf(p)])
                          /\ ~Has(trace[p], "ocrImage")
                          /\ InCleanup(p)

\* the conversion of a workflow request with scale 50 has failed and the
\* invocation is in its cleanup
C34_Witness ==
    \E p \in Pipes :
        /\ InCleanup(p)
        /\ cfg[p].scale = "50"
        /\ ret[p].err = "failed to convert source image"
        /\ \E i \in 1..Len(cmds[HostOf(p)]) :
              /\ IsConversion(cmds[HostOf(p)][i])
              /\ cmds[HostOf(p)][i].Arguments[ResizeArg] = <<"50", "%">>

(***************************************************************************)
(* Two execution environments, each dispatching one request of any shape   *)
(***************************************************************************)
\* the identifiers a workflow caller may send: none, one path element, or
\* a value with a "/" in it, which path.Join takes as two elements
PidInputs == { <<>>, <<"a">>, <<"b">>, <<"a", "b">> }

WorkflowRequests ==
    { LambdaRequest(pid, parentPid, NoLang, scale, "bkt", <<"in", "x.tif">>, <<>>) :
        pid \in PidInputs \ {<<>>}, parentPid \in PidInputs, scale \in {"50", "100"} }

\* a request with a pid and with S3 records
WorkflowWithRecords ==
    LambdaRequest(<<"a">>, <<"a">>, NoLang, "50", "bkt", <<"in", "x.tif">>,
                  << S3Record("bkt", <<"standalone", "requests", "x", "img.tif">>) >>)

RouteRequests == WorkflowRequests \cup {WorkflowWithRecords, Standalone, Unhandled}

NextRoute == \E p \in Pipes, r \in RouteRequests : LambdaInvoke(p, r, 1)

SpecRoute == InitKey /\ [][NextRoute]_vars

(***************************************************************************)
(* C36: the results prefix of a workflow request                           *)
(***************************************************************************)
\* p has dispatched a workflow request
Workflow(p) == ninv[p] > 0 /\ Route(lreq[p]) = "workflow" /\ lreq[p].Records = <<>>

JobOf(r) == << r.ParentPid, r.Pid, r.Scale >>

\* C36: two workflow requests that differ in ParentPid, Pid or Scale are
\* given different results prefixes.
C36_PrefixesNeverCollide ==
    \A p, q \in Pipes :
        (Workflow(p) /\ Workflow(q) /\ JobOf(lreq[p]) # JobOf(lreq[q]))
            => cfg[p].remoteResultsPrefix # cfg[q].remoteResultsPrefix

(***************************************************************************)
(* C35: handleOcrRequest routes by the shape of the request                *)
(***************************************************************************)
\* C35: a request with a pid is taken as a workflow request, S3 records
\* or not: its job gets hocr as additional format, a prefix under results
\* and the bucket and key of the request; a request with no pid and with
\* S3 records is taken as a standalone request: hocr and pdf, a prefix
\* under standalone, the bucket and key of the first record; any other
\* request is answered with the error "unhandled request type" and leaves
\* the audit trail, the local files, the work directory, the language
\* cache and the store as they were.
C35_RoutesByShape ==
    [][\A p \in Pipes :
          ninv'[p] = ninv[p] + 1 =>
              LET r == lreq'[p] IN
              /\ r.Pid # <<>> =>
                    /\ lpc'[p] = "MkdirAll"
                    /\ cfg'[p].additionalFormats = <<"hocr">>
                    /\ cfg'[p].remoteResultsPrefix[1] = "results"
                    /\ cfg'[p].bucket = r.Bucket
                    /\ cfg'[p].key = r.Key
              /\ (r.Pid = <<>> /\ r.Records # <<>>) =>
                    /\ lpc'[p] = "MkdirAll"
                    /\ cfg'[p].additionalFormats = <<"hocr", "pdf">>
                    /\ cfg'[p].remoteResultsPrefix[1] = "standalone"
                    /\ cfg'[p].bucket = r.Records[1].Bucket
                    /\ cfg'[p].key = r.Records[1].Key
              /\ (r.Pid = <<>> /\ r.Records = <<>>) =>
                    /\ ret'[p] = Result(<<>>, "unhandled request type")
                    /\ lpc'[p] = "returned"
                    /\ trace'[p] = <<>>
                    /\ uploaded'[p] = {}
                    /\ UNCHANGED << cfg, cmds, cwd, fs, wdExists, tess, s3 >>]_vars

\* a request with a pid and S3 records was taken as a workflow request,
\* and a request with neither was answered with the error
C35_Witness ==
    \E p, q \in Pipes :
        /\ lreq[p] = WorkflowWithRecords
        /\ lpc[p] = "MkdirAll"
        /\ cfg[p].additionalFormats = <<"hocr">>
        /\ lreq[q] = Unhandled
        /\ ninv[q] = 1
        /\ ret[q].err = "unhandled request type"

(***************************************************************************)
(* One execution environment serving one request, among them a request     *)
(* whose source key ends in the name of the converted image                *)
(***************************************************************************)
WorkflowConvertedKey ==
    LambdaRequest(<<"m4">>, <<"m4">>, NoLang, "50", "bkt", <<"in", "converted.tif">>, <<>>)

NextNames ==
    \/ \E r \in LambdaRequests \cup {WorkflowConvertedKey} : LambdaInvoke("p1", r, 1)
    \/ PipelineStep("p1")

SpecNames == InitKey /\ [][NextNames]_vars

(***************************************************************************)
(* C37: the local file names of an invocation                              *)
(***************************************************************************)
IsResultName(f) == f[1] = "results."

\* C37: in every invocation the name of the downloaded source image, the
\* name of the converted image and the names of the result files are
\* pairwise distinct; no conversion run reads the file it writes, and no
\* object the invocation puts into the store is one of the two images.
C37_FileRolesDistinct ==
    \A p \in Pipes :
        Running(p) =>
            LET localSourceImage == SourceFile(Base(cfg[p].key)) IN
            /\ localSourceImage # LocalConvertedImage
            /\ ~IsResultName(localSourceImage)
            /\ ~IsResultName(LocalConvertedImage)
            /\ \A i \in 1..Len(cmds[HostOf(p)]) :
                  LET c == cmds[HostOf(p)][i] IN
                  IsConversion(c) =>
                      c.Arguments[InputArg] # <<c.Arguments[OutputArg], "[0]">>
            /\ \A u \in uploaded[p] : IsResultName(u[1][3])

(***************************************************************************)
(* C38: what the language cache holds                                      *)
(***************************************************************************)
\* the data file of code c is in the cache of p's environment
Cached(p, c) == tess[HostOf(p)][c] # "absent"

\* C38: every data file in the language cache is a complete file, copied
\* in at start-up or the whole body of a 200 response; so a file that the
\* loop of checkLanguages is about to skip as present is complete.
C38_CacheHoldsCompleteFiles ==
    \A p \in Pipes :
        /\ \A c \in LangCodes : Cached(p, c) => tess[HostOf(p)][c] = "ok"
        /\ (lpc[p] = "langLoop" /\ li[p] <= Len(langsAll[p])
              /\ Cached(p, langsAll[p][li[p]]))
                 => tess[HostOf(p)][langsAll[p][li[p]]] = "ok"

(***************************************************************************)
(* One execution environment serving the same workflow request three       *)
(* times, one invocation after the other                                   *)
(***************************************************************************)
NextStale ==
    \/ LambdaInvoke("p1", WorkflowEng, 3)
    \/ PipelineStep("p1")

SpecStale == InitKey /\ [][NextStale]_vars

(***************************************************************************)
(* C39: nothing of an earlier job is left for a later one                  *)
(***************************************************************************)
\* the invocation of p has made the object u itself: a log it has written,
\* or an output of the recognition it has run
MadeBy(p, u) ==
    IF u[1][3] = ResultsFile("log")
    THEN LogWrites(p) # {} /\ Commands(u[2].commands) = ran[p]
    ELSE Has(trace[p], "ocrImage")

\* C39: between invocations the work directory does not exist; an
\* invocation that has entered it finds it empty; and every object an
\* invocation puts into the store is a file this invocation has made.
C39_NothingLeftOver ==
    \A p \in Pipes :
        /\ ~Running(p) => (~wdExists[HostOf(p)] /\ WorkDirOf(p) = EmptyDir)
        /\ (lpc[p] = "downloadImage" /\ Entered(p)) => WorkDirOf(p) = EmptyDir
        /\ \A u \in uploaded[p] : MadeBy(p, u)

(***************************************************************************)
(* C40: what an invocation hands back                                      *)
(***************************************************************************)
\* the text that recognition of the image of p's request produces
OwnText(p) ==
    Recognized("txt", Converted(Image(cfg[p].bucket, cfg[p].key), cfg[p].scale),
               LangStr(cfg[p]))

\* p's invocation has handed back a response and no error
Success(p) == Returned(p) /\ ret[p].err = ""

\* C40: an invocation that has returned has handed back either a response
\* and no error, or no response and an error; a response is handed back
\* only after this invocation's own recognition succeeded, and its text
\* member is the text that recognition wrote to results.txt.
C40_ResponseXorError ==
    \A p \in Pipes :
        /\ Returned(p) => Terminal(p)
        /\ Success(p) =>
              /\ Len(ret[p].out) = 1
              /\ ret[p].out[1].text = OwnText(p)
              /\ \E i \in 1..Len(ran[p]) : ran[p][i] = <<"tesseract", TRUE>>
              /\ Has(trace[p], "ReadFile")

\* a second invocation of an environment, for another request than its
\* first, has handed back a response
C40_Witness ==
    /\ ninv["p1"] = 2
    /\ Success("p1")
    /\ ret["p1"].out[1].text = OwnText("p1")
    /\ \E u \in DOMAIN s3 : s3[u].kind = "txt" /\ s3[u] # OwnText("p1")

====
